---- MODULE Spec2Model ----
(***************************************************************************)
(* XR traffic generation and QoE evaluation of the NASCX repository:       *)
(* XRTrafficSource (frame pacing, fragmentation) and XRTrafficReceiver     *)
(* (reassembly, deadline classification, per-user and global QoE).         *)
(*                                                                         *)
(* The simulation clock `now` counts ticks of one millisecond; a simtime   *)
(* value of t seconds is the tick count t * TicksPerSecond.  Real-valued   *)
(* quantities (mse, errors, delays) take integer values here and ratios    *)
(* are kept as exact fractions [num, den]; the rounding of C++ doubles is  *)
(* not modelled.  A run is one simulation in a fresh process: every module *)
(* is initialized before the first event and the kernel calls finish() on  *)
(* every module once the event loop has ended.  Receiver nodes are started *)
(* once; the source node is restarted after a stop or crash only in        *)
(* SpecLife.                                                               *)
(***************************************************************************)
EXTENDS Integers, Sequences, FiniteSets, TLC

(***************************************************************************)
(* Bounds of the model                                                     *)
(***************************************************************************)
MaxUsers == 2          \* receiver instances (UEs) of one run
MaxExpected == 2       \* largest value of the expectedFrames parameter
MaxTime == 2           \* last tick of the simulation clock
MaxArrivals == 3       \* fragments that reach the receiver (SpecRecv)
MaxRunArrivals == 2    \* fragments that reach the receivers of a run (Spec)
MaxCatalog == 2        \* rows of a catalog (SpecSend)
MaxFragBytes == 10     \* small frame sizes (SpecFrag)
MaxFragPayload == 4    \* small payload sizes (SpecFrag)
MaxFragCount == 4       \* fragments of one frame (SpecFrag)
MaxRestarts == 1
MaxDraw == 2
MaxJitter == 1
MaxStartTime == 1
MaxPaceTime == 6
MaxLines == 2
MaxLineFields == 5
MaxRuns == 2            \* simulation runs in one process (SpecRuns)

(***************************************************************************)
(* Program constants and configuration values                              *)
(***************************************************************************)
PenaltyError == 1000        \* fixed error of late / lost frames
DeadlineMs == 1             \* par("deadlineMs")
ThresholdNum == 1           \* par("reliabilityThreshold") = 1/2
ThresholdDen == 2
MaxPayloadSize == 60000     \* par("maxPayloadSize")
TicksPerSecond == 1000
RedrawBudget == 1000
IntMax == 2147483647        \* largest value of a C++ int
IntMin == -IntMax - 1

Receivers == 1..MaxUsers

(***************************************************************************)
(* struct FrameInfo and the rows of the PCA file the runs draw from        *)
(***************************************************************************)
FrameInfo(f, c, m, s) ==
    [frame_number |-> f, components |-> c, mse |-> m, size_bytes |-> s]

PcaRows ==
    { FrameInfo(1, 5, 50, 100000),
      FrameInfo(1, 10, 30, 150000),
      FrameInfo(2, 5, 80, 100000) }

(***************************************************************************)
(* Exact fractions standing for the double-valued ratios                   *)
(***************************************************************************)
Ratio(n, d) == [num |-> n, den |-> d]

\* a >= b on doubles; a division by zero (0.0/0 = NaN) compares false
RatioGE(a, b) == a.den > 0 /\ b.den > 0 /\ a.num * b.den >= b.num * a.den

VARIABLES
    now,                 \* simTime() in ticks
    \* ---- XRTrafficSource ----
    frames,              \* vector<FrameInfo> frames (the loaded catalog)
    frame_number,        \* index of the next catalog row to send
    maxPayloadSize,      \* par("maxPayloadSize")
    srcState,            \* "created", "up", "down", "error"
    destResolved,        \* the resolver yields a specified destAddress
    srcSocketOpen,       \* socket.isOpen()
    srcConnected,        \* socket.connect(destAddress, destPort) was called
    restartsLeft,        \* starts after a stop or crash the scenario still holds
    sendTimer,           \* TRUE while the sendTimer self-message is scheduled
    net,                 \* packets handed to the UDP socket, not yet delivered
    emitted,             \* history: one entry per frame sent by sendPacket
    delivered,           \* history: ids of the packets delivered so far
    lastFrameUpdated,    \* frame number of the last setXRMetrics call
    binderOk,            \* binder_ != nullptr && macNodeId_ != NODEID_NONE
    xrMetrics,           \* history: the setXRMetrics calls made
    attempted,           \* history: catalog indices sendPacket has worked on
    retried,             \* history: catalog indices it has worked on again
    gau,                 \* the call of tran_gau_num in progress: its position,
                         \* minv, maxv, x, attempts and what it returned
    pace,                \* fps, startTime, jitter_min, jitter_max, and whether
                         \* the specification tracks the timer's arrival time
    sendAt,              \* arrival time of the scheduled sendTimer, else -1
    startedAt,           \* history: simTime() of the handleStartOperation that
                         \* precedes the first emission
    load,                \* loadPCAData: its position, compressionLevel_, the
                         \* lines read and, as history, what each line was
    \* ---- XRTrafficReceiver, per instance ----
    numUe,               \* receiver instances of the network
    deadlineMs,          \* par("deadlineMs"), the same for every instance
    reliabilityThreshold, \* par("reliabilityThreshold"), as a fraction
    rstate,              \* "created", "up", "down", "finished"
    expectedTotalFrames,
    receivedFrames,      \* map<int, ReceivedFrameStats>
    trackingStarted,
    firstFrameTime,
    qoeComputed,
    qoe,                 \* what the last computeAndRecordQoE reported
    teardowns,           \* history: runs of detectLostFrames + computeAndRecordQoE
    resultFile,          \* the per-user result file: configured, open, its rows
    seen,                \* history: the (instance, frame, fragment index)
                         \* triples that have arrived, where it is kept
    arrivalsLeft,        \* fragments the environment may still hand over
    \* ---- XRTrafficReceiver, static members ----
    totalSumError,
    totalExpectedFrames,
    totalOnTimeFrames,
    totalSatisfiedUsers,
    userCount,
    globalStatsPrinted,
    finishedCount,
    globalSummary        \* the global summaries emitted so far

srcVars == <<frames, frame_number, maxPayloadSize, srcState, destResolved,
             srcSocketOpen, srcConnected, restartsLeft, sendTimer, net,
             emitted, delivered, lastFrameUpdated, binderOk, xrMetrics,
             attempted, retried, gau, load, pace, sendAt, startedAt>>
trackVars == <<trackingStarted, firstFrameTime>>
rcvVars == <<numUe, deadlineMs, reliabilityThreshold, rstate, expectedTotalFrames, receivedFrames, trackVars,
             qoeComputed, qoe, teardowns, resultFile, seen, arrivalsLeft>>
staticVars == <<totalSumError, totalExpectedFrames, totalOnTimeFrames,
                totalSatisfiedUsers, userCount, globalStatsPrinted,
                finishedCount, globalSummary>>
vars == <<now, srcVars, rcvVars, staticVars>>


(***************************************************************************)
(* XRTrafficSource::sendPacket -- fragmentation                            *)
(***************************************************************************)
Min(a, b) == IF a <= b THEN a ELSE b

\* a + b on C++ ints, a >= 0 and b >= 0, as two's complement wraps it
WrapAdd(a, b) ==
    IF a <= IntMax - b THEN a + b ELSE IntMin + (a - (IntMax - b) - 1)

\* x - 1 on C++ ints, as two's complement wraps it
WrapDec(x) == IF x = IntMin THEN IntMax ELSE x - 1

\* a / b on C++ ints (b > 0): the quotient is truncated towards zero
TruncDiv(a, b) ==
    IF a >= 0
    THEN a \div b
    ELSE LET m == -(a + 1)
         IN  -((m \div b) + (IF m % b = b - 1 THEN 1 ELSE 0))

\* size_bytes + maxPayloadSize - 1 does not fit an int
SumOverflows(size, maxP) == size > IntMax - maxP

\* int totalFragments = (size_bytes + maxPayloadSize - 1) / maxPayloadSize;
\* a signed overflow of the sum is undefined behaviour: the build either
\* wraps the sum or evaluates it in a wider register.
TotalFragmentsOutcomes(size, maxP) ==
    IF ~SumOverflows(size, maxP)
    THEN { TruncDiv(size + maxP - 1, maxP) }
    ELSE { TruncDiv(WrapDec(WrapAdd(size, maxP)), maxP),
           ((size - 1) \div maxP) + 1 }

\* faulty variant of FragSize: every fragment is given the full payload size
FragSizeFull(remainingBytes, maxP, k) == maxP

\* the loop's fragSize = min(remainingBytes, maxPayloadSize) for fragIndex k
RECURSIVE FragSize(_, _, _)
FragSize(remainingBytes, maxP, k) ==
    IF k = 0
    THEN Min(remainingBytes, maxP)
    ELSE FragSize(remainingBytes - Min(remainingBytes, maxP), maxP, k - 1)

\* faulty variant of GenTimeOf: a time of its own for every fragment
GenTimePerFragment(t, fragIndex) == t + fragIndex

\* header->setGenTime(simTime().dbl())
GenTimeOf(t, fragIndex) == t

\* the XRHeader of fragment fragIndex of frameInfo, built at time t
MakeHeader(frameInfo, t, fragIndex, totalFragments) ==
    [frameNumber |-> frameInfo.frame_number,
     pcaComponents |-> frameInfo.components,
     mse |-> frameInfo.mse,
     sizeBytes |-> frameInfo.size_bytes,
     genTime |-> GenTimeOf(t, fragIndex),
     fragIndex |-> fragIndex,
     totalFragments |-> totalFragments]

\* the packets of one frame in the order the loop sends them; seq numbers
\* the sendPacket call, so that every Packet object has its own identity
FramePackets(frameInfo, t, totalFragments, maxP, seq) ==
    [k \in 1..totalFragments |->
        [hdr |-> MakeHeader(frameInfo, t, k - 1, totalFragments),
         payloadLen |-> FragSize(frameInfo.size_bytes, maxP, k - 1),
         id |-> <<seq, k - 1>>]]

SeqToSet(s) == { s[i] : i \in DOMAIN s }

(***************************************************************************)
(* XRTrafficReceiver::processFrame                                         *)
(***************************************************************************)
\* faulty variant of NewStats: the new record starts with a delay of 0
NewStatsDelayZero(h, recvTime) ==
    [frameNumber |-> h.frameNumber,
     pcaComponents |-> h.pcaComponents,
     mse |-> h.mse,
     sizeBytes |-> h.sizeBytes,
     genTime |-> h.genTime,
     recvTime |-> recvTime,
     delay |-> 0,
     receivedOnTime |-> FALSE,
     effectiveError |-> PenaltyError,
     fragmentsReceived |-> 1,
     totalFragments |-> h.totalFragments]

\* the record created for the first fragment seen of a frame number
NewStats(h, recvTime) ==
    [frameNumber |-> h.frameNumber,
     pcaComponents |-> h.pcaComponents,
     mse |-> h.mse,
     sizeBytes |-> h.sizeBytes,
     genTime |-> h.genTime,
     recvTime |-> recvTime,
     delay |-> -1,
     receivedOnTime |-> FALSE,
     effectiveError |-> PenaltyError,
     fragmentsReceived |-> 1,
     totalFragments |-> h.totalFragments]

\* faulty variant of CountFragment: later fragments are not counted
CountFirstFragmentOnly(map, h, recvTime) ==
    IF h.frameNumber \notin DOMAIN map
    THEN [i \in DOMAIN map \cup {h.frameNumber} |->
            IF i = h.frameNumber THEN NewStats(h, recvTime) ELSE map[i]]
    ELSE map

\* receivedFrames.find(frameNumber) == end ? insert : fragmentsReceived++
CountFragment(map, h, recvTime) ==
    IF h.frameNumber \notin DOMAIN map
    THEN [i \in DOMAIN map \cup {h.frameNumber} |->
            IF i = h.frameNumber THEN NewStats(h, recvTime) ELSE map[i]]
    ELSE [map EXCEPT ![h.frameNumber].fragmentsReceived = @ + 1]

\* faulty variant of DelayMsOf: the delay in microseconds
DelayUsOf(recvTime, genTime) ==
    ((recvTime - genTime) * 1000000) \div TicksPerSecond

\* double delay = (recvTime.dbl() - genTime) * 1000.0;   (milliseconds)
DelayMsOf(recvTime, genTime) == ((recvTime - genTime) * 1000) \div TicksPerSecond

\* faulty variant of IsOnTime: the deadline itself counts as late
IsOnTimeStrict(delay) == delay < deadlineMs

\* bool onTime = (delay <= deadlineMs);
IsOnTime(delay) == delay <= deadlineMs

\* faulty variant of EffectiveErrorOf: the two branches exchanged
EffectiveErrorSwapped(onTime, mse) == IF onTime THEN PenaltyError ELSE mse

\* onTime ? mse : 1000.0
EffectiveErrorOf(onTime, mse) == IF onTime THEN mse ELSE PenaltyError

\* faulty variant of CompleteFrame: the test is >= in place of ==
CompleteFrameAtLeast(map, h, recvTime) ==
    IF map[h.frameNumber].fragmentsReceived >= h.totalFragments
    THEN LET delay == DelayMsOf(recvTime, h.genTime)
             onTime == IsOnTime(delay)
         IN  [map EXCEPT ![h.frameNumber].delay = delay,
                         ![h.frameNumber].receivedOnTime = onTime,
                         ![h.frameNumber].effectiveError =
                              EffectiveErrorOf(onTime, h.mse)]
    ELSE map

\* if (receivedFrames[frameNumber].fragmentsReceived == totalFragments) ...
CompleteFrame(map, h, recvTime) ==
    IF map[h.frameNumber].fragmentsReceived = h.totalFragments
    THEN LET delay == DelayMsOf(recvTime, h.genTime)
             onTime == IsOnTime(delay)
         IN  [map EXCEPT ![h.frameNumber].delay = delay,
                         ![h.frameNumber].receivedOnTime = onTime,
                         ![h.frameNumber].effectiveError =
                              EffectiveErrorOf(onTime, h.mse)]
    ELSE map

\* faulty variant of ProcessFrame: the delay is written on every fragment
ProcessFrameEager(map, h, recvTime) ==
    [CountFragment(map, h, recvTime) EXCEPT
        ![h.frameNumber].delay = DelayMsOf(recvTime, h.genTime)]

\* processFrame: count the fragment, then test for completion
ProcessFrame(map, h, recvTime) ==
    CompleteFrame(CountFragment(map, h, recvTime), h, recvTime)

(***************************************************************************)
(* XRTrafficReceiver::detectLostFrames                                     *)
(***************************************************************************)
\* faulty variant of LostStats: the synthesized record carries no penalty
LostStatsZeroError(i) ==
    [frameNumber |-> i,
     pcaComponents |-> 0,
     mse |-> 0,
     sizeBytes |-> 0,
     genTime |-> 0,
     recvTime |-> 0,
     delay |-> -1,
     receivedOnTime |-> FALSE,
     effectiveError |-> 0]

\* lostStats: fragmentsReceived and totalFragments are never assigned, so the
\* synthesized record holds no defined value for them (the fields are absent)
LostStats(i) ==
    [frameNumber |-> i,
     pcaComponents |-> 0,
     mse |-> 0,
     sizeBytes |-> 0,
     genTime |-> 0,
     recvTime |-> 0,
     delay |-> -1,
     receivedOnTime |-> FALSE,
     effectiveError |-> PenaltyError]

MissingFrames(map, expected) == { i \in 1..expected : i \notin DOMAIN map }

\* faulty variant of DetectLostFrames: every pass adds the penalty to the
\* records without a delay
DetectLostFramesPenalize(map, expected) ==
    [i \in DOMAIN map \cup MissingFrames(map, expected) |->
        IF i \in DOMAIN map
        THEN IF map[i].delay < 0
             THEN [map[i] EXCEPT !.effectiveError = @ + PenaltyError]
             ELSE map[i]
        ELSE LostStats(i)]

\* detectLostFrames: a synthesized record for every missing frame number
DetectLostFrames(map, expected) ==
    [i \in DOMAIN map \cup MissingFrames(map, expected) |->
        IF i \in DOMAIN map THEN map[i] ELSE LostStats(i)]

(***************************************************************************)
(* XRTrafficReceiver::computeAndRecordQoE                                  *)
(***************************************************************************)
ZeroCounters ==
    [receivedCount |-> 0, onTimeCount |-> 0, lateCount |-> 0, lostCount |-> 0,
     sumError |-> 0, sumDelay |-> 0]

\* faulty variant of CountFrame: a late frame is not counted as late
CountFrameLateDropped(acc, stats) ==
    LET a == [acc EXCEPT !.sumError = @ + stats.effectiveError]
    IN  IF stats.delay >= 0
        THEN IF stats.receivedOnTime
             THEN [a EXCEPT !.receivedCount = @ + 1,
                            !.sumDelay = @ + stats.delay,
                            !.onTimeCount = @ + 1]
             ELSE [a EXCEPT !.receivedCount = @ + 1,
                            !.sumDelay = @ + stats.delay]
        ELSE [a EXCEPT !.lostCount = @ + 1]

\* one pass of the body of  for (int i = 1; i <= expectedTotalFrames; i++)
CountFrame(acc, stats) ==
    LET a == [acc EXCEPT !.sumError = @ + stats.effectiveError]
    IN  IF stats.delay >= 0
        THEN IF stats.receivedOnTime
             THEN [a EXCEPT !.receivedCount = @ + 1,
                            !.sumDelay = @ + stats.delay,
                            !.onTimeCount = @ + 1]
             ELSE [a EXCEPT !.receivedCount = @ + 1,
                            !.sumDelay = @ + stats.delay,
                            !.lateCount = @ + 1]
        ELSE [a EXCEPT !.lostCount = @ + 1]

RECURSIVE CountFrames(_, _, _, _)
CountFrames(map, i, expected, acc) ==
    IF i > expected
    THEN acc
    ELSE CountFrames(map, i + 1, expected, CountFrame(acc, map[i]))

\* the counters after a pass over the records with the given keys
RECURSIVE CountKeys(_, _, _)
CountKeys(map, keys, acc) ==
    IF keys = {} THEN acc
    ELSE LET i == CHOOSE x \in keys : \A y \in keys : x <= y
         IN  CountKeys(map, keys \ {i}, CountFrame(acc, map[i]))

\* faulty variant of LoopCounters: the loop runs over the records of the map
LoopCountersAllRecords(map, expected) ==
    CountKeys(map, DOMAIN map, ZeroCounters)
\* for (int i = 1; i <= expectedTotalFrames; i++) { ... receivedFrames[i] ... }
LoopCounters(map, expected) == CountFrames(map, 1, expected, ZeroCounters)

\* a division that rounds down
MeanErrorTruncated(sumError, totalFrames) ==
    IF totalFrames > 0 THEN Ratio(sumError \div totalFrames, 1)
                       ELSE Ratio(0, 1)
\* double meanError = (totalFrames > 0) ? sumError / totalFrames : 0.0;
MeanError(sumError, totalFrames) ==
    IF totalFrames > 0 THEN Ratio(sumError, totalFrames) ELSE Ratio(0, 1)

\* the division without its guard
AvgDelayUnguarded(sumDelay, receivedCount) == Ratio(sumDelay, receivedCount)
\* double avgDelay = (receivedCount > 0) ? sumDelay / receivedCount : 0;
AvgDelay(sumDelay, receivedCount) ==
    IF receivedCount > 0 THEN Ratio(sumDelay, receivedCount) ELSE Ratio(0, 1)

\* the comparison with > in place of >=
UserSatisfiedStrict(delayReliability) ==
    ~RatioGE(reliabilityThreshold, delayReliability)
\* bool userSatisfied = (delayReliability >= reliabilityThreshold);
UserSatisfied(delayReliability) ==
    RatioGE(delayReliability, reliabilityThreshold)

\* the values computeAndRecordQoE prints and records for one instance
QoESummary(map, expected) ==
    LET c == LoopCounters(map, expected)
        onTimeRatio == Ratio(c.onTimeCount, expected)
    IN  [totalFrames |-> expected,
         receivedCount |-> c.receivedCount,
         onTimeCount |-> c.onTimeCount,
         lateCount |-> c.lateCount,
         lostCount |-> c.lostCount,
         sumError |-> c.sumError,
         sumDelay |-> c.sumDelay,
         meanError |-> MeanError(c.sumError, expected),
         deliveryRatio |-> Ratio(c.receivedCount, expected),
         onTimeRatio |-> onTimeRatio,
         lossRatio |-> Ratio(c.lostCount, expected),
         avgDelay |-> AvgDelay(c.sumDelay, c.receivedCount),
         delayReliability |-> onTimeRatio,
         userSatisfied |-> UserSatisfied(onTimeRatio)]

NoQoE == [totalFrames |-> -1]

\* faulty variant of FoldOnce: the qoeComputed guard is missing
FoldAlways(computed, total, x) == total + x

\* if (!qoeComputed) { total += x; ... }
FoldOnce(computed, total, x) == IF ~computed THEN total + x ELSE total

\* if (userSatisfied) totalSatisfiedUsers++;   (after the guarded block)
CountSatisfied(total, satisfied) == IF satisfied THEN total + 1 ELSE total

\* detectLostFrames(); computeAndRecordQoE();  of instance r
Teardown(r) ==
    LET map == DetectLostFrames(receivedFrames[r], expectedTotalFrames[r])
        q == QoESummary(map, expectedTotalFrames[r])
    IN  /\ receivedFrames' = [receivedFrames EXCEPT ![r] = map]
        /\ teardowns' = [teardowns EXCEPT ![r] = @ + 1]
        /\ IF DOMAIN map = {}
           THEN \* "No frames received, cannot compute QoE metrics"
                UNCHANGED <<qoe, qoeComputed, totalSumError,
                            totalExpectedFrames, totalOnTimeFrames,
                            totalSatisfiedUsers>>
           ELSE /\ qoe' = [qoe EXCEPT ![r] = q]
                /\ totalSumError' =
                       FoldOnce(qoeComputed[r], totalSumError, q.sumError)
                /\ totalExpectedFrames' =
                       FoldOnce(qoeComputed[r], totalExpectedFrames,
                                q.totalFrames)
                /\ totalOnTimeFrames' =
                       FoldOnce(qoeComputed[r], totalOnTimeFrames,
                                q.onTimeCount)
                /\ qoeComputed' = [qoeComputed EXCEPT ![r] = TRUE]
                /\ totalSatisfiedUsers' =
                       CountSatisfied(totalSatisfiedUsers, q.userSatisfied)

(***************************************************************************)
(* XRTrafficReceiver: the per-user result file.  A file is whether a name  *)
(* is configured, whether the stream is open, and the data rows written.   *)
(***************************************************************************)
\* par("resultFile") empty: nothing is opened
NoFile == [configured |-> FALSE, open |-> FALSE, rows |-> <<>>]

\* par("resultFile") names a file
NamedFile == [configured |-> TRUE, open |-> FALSE, rows |-> <<>>]

\* if (!resultFilename.empty()) resultFile.open(resultFilename); + header line
OpenFile(file) == [file EXCEPT !.open = file.configured]

\* resultFile.close()
CloseFile(file) == [file EXCEPT !.open = FALSE]

\* the row written when a frame completes
CompletionRow(h, recvTime) ==
    LET delay == DelayMsOf(recvTime, h.genTime)
        onTime == IsOnTime(delay)
    IN  [frameNumber |-> h.frameNumber,
         components |-> h.pcaComponents,
         mse |-> h.mse,
         sizeBytes |-> h.sizeBytes,
         genTime |-> h.genTime,
         recvTime |-> recvTime,
         delay_ms |-> delay,
         receivedOnTime |-> IF onTime THEN 1 ELSE 0,
         effectiveError |-> EffectiveErrorOf(onTime, h.mse),
         deadline_ms |-> deadlineMs]

\* the row written for a synthesized lost frame: i,0,0,0,0,0,-1,0,1000,deadline
LostRow(i) ==
    [frameNumber |-> i,
     components |-> 0,
     mse |-> 0,
     sizeBytes |-> 0,
     genTime |-> 0,
     recvTime |-> 0,
     delay_ms |-> -1,
     receivedOnTime |-> 0,
     effectiveError |-> PenaltyError,
     deadline_ms |-> deadlineMs]

\* processFrame, inside the completion block: if (resultFile.is_open()) ...;
\* counted is the map after this fragment has been counted
WriteCompletion(file, counted, h, recvTime) ==
    IF /\ file.open
       /\ counted[h.frameNumber].fragmentsReceived = h.totalFragments
    THEN [file EXCEPT !.rows = Append(@, CompletionRow(h, recvTime))]
    ELSE file

\* the rows of the missing frame numbers, in the order of the loop
RECURSIVE LostRows(_)
LostRows(missing) ==
    IF missing = {} THEN <<>>
    ELSE LET i == CHOOSE x \in missing : \A y \in missing : x <= y
         IN  <<LostRow(i)>> \o LostRows(missing \ {i})

\* detectLostFrames of instance r: a row for every frame number it inserts
WriteLost(file, r) ==
    IF file.open
    THEN [file EXCEPT !.rows =
            @ \o LostRows(MissingFrames(receivedFrames[r],
                                        expectedTotalFrames[r]))]
    ELSE file

(***************************************************************************)
(* XRTrafficSource::loadPCAData.  A line of the file is the sequence of    *)
(* its comma-separated fields, a field a sequence of characters; the empty *)
(* line is the one empty field.                                            *)
(***************************************************************************)
FieldTexts == { <<"1">>, <<" ", "5">>, <<"1", "x">>, <<"x">>, <<>> }

Lines == UNION { [1..n -> FieldTexts] : n \in 1..MaxLineFields }

\* par("compressionLevel")
CompressionLevels == {0, 1, 5}

DigitValue(c) == IF c = "1" THEN 1 ELSE 5
IsDigit(c) == c \in {"1", "5"}

\* field.erase(remove_if(..., ::isspace), field.end())
EraseSpaces(field) == SelectSeq(field, LAMBDA c : c # " ")

\* the fields the inner getline loop collects: there is no field after a
\* comma that ends the line
SplitFields(line) ==
    LET n == Len(line)
        raw == IF line[n] = <<>> THEN SubSeq(line, 1, n - 1) ELSE line
    IN  [i \in DOMAIN raw |-> EraseSpaces(raw[i])]

RECURSIVE DigitPrefix(_)
\* the longest prefix of digits
DigitPrefix(field) ==
    IF field = <<>> \/ ~IsDigit(Head(field)) THEN <<>>
    ELSE <<Head(field)>> \o DigitPrefix(Tail(field))

RECURSIVE DecimalValue(_)
DecimalValue(digits) ==
    IF digits = <<>> THEN 0
    ELSE 10 * DecimalValue(SubSeq(digits, 1, Len(digits) - 1))
             + DigitValue(digits[Len(digits)])

\* std::stoi: converts the leading digits and throws if there are none
Stoi(field) ==
    [ok |-> DigitPrefix(field) # <<>>,
     value |-> DecimalValue(DigitPrefix(field))]

\* std::stod, on fields without a decimal point
Stod(field) == Stoi(field)

\* one iteration of the while loop on a non-empty line: the row pushed, as a
\* sequence of at most one FrameInfo
ParseLine(line, level) ==
    LET fields == SplitFields(line)
    IN  IF Len(fields) # 4 THEN <<>>
        ELSE LET f == Stoi(fields[1])
                 c == Stoi(fields[2])
                 m == Stod(fields[3])
                 z == Stoi(fields[4])
             IN  IF ~(f.ok /\ c.ok /\ m.ok /\ z.ok) THEN <<>>
                 ELSE IF level = 0 \/ c.value = level
                      THEN << FrameInfo(f.value, c.value, m.value, z.value) >>
                      ELSE <<>>

\* loadPCAData has run
Loaded == [pc |-> "done", compressionLevel_ |-> 0, lineNum |-> 0, log |-> <<>>]

RECURSIVE StripLeft(_)
StripLeft(field) ==
    IF field # <<>> /\ Head(field) = " " THEN StripLeft(Tail(field))
    ELSE field

\* a field that is a number: digits only, blanks around them aside
IsNumber(field) ==
    LET t == StripLeft(field)
    IN  t # <<>> /\ \A i \in DOMAIN t : IsDigit(t[i])

\* a record of exactly four fields, each a number
WellFormed(line) == Len(line) = 4 /\ \A i \in 1..4 : IsNumber(line[i])

\* history: what a line was and whether it was pushed
LogEntry(line, pushed) ==
    [wellFormed |-> WellFormed(line),
     components |-> IF WellFormed(line)
                    THEN DecimalValue(StripLeft(line[2])) ELSE 0,
     kept |-> pushed # <<>>]

\* the file is opened and its header line read
LoadBegin ==
    /\ load.pc = "start"
    /\ \E outcome \in {"missing", "empty", "header"} :
          load' = [load EXCEPT !.pc = CASE outcome = "missing" -> "error"
                                       [] outcome = "empty" -> "done"
                                       [] OTHER -> "lines",
                               !.lineNum = 1]
    /\ UNCHANGED <<now, frames, frame_number, maxPayloadSize, srcState,
                   destResolved, srcSocketOpen, srcConnected, restartsLeft,
                   sendTimer, net, emitted, delivered, lastFrameUpdated,
                   binderOk, xrMetrics, attempted, retried, gau, pace, sendAt,
                   startedAt, rcvVars, staticVars>>

\* one iteration of while (getline(f, line))
LoadLine ==
    /\ load.pc = "lines"
    /\ load.lineNum <= MaxLines
    /\ \E line \in Lines :
          LET pushed == IF line = << <<>> >> THEN <<>>
                        ELSE ParseLine(line, load.compressionLevel_)
          IN  /\ frames' = frames \o pushed
              /\ load' = [load EXCEPT !.lineNum = load.lineNum + 1,
                                      !.log = Append(load.log,
                                                     LogEntry(line, pushed))]
    /\ UNCHANGED <<now, frame_number, maxPayloadSize, srcState,
                   destResolved, srcSocketOpen, srcConnected, restartsLeft,
                   sendTimer, net, emitted, delivered, lastFrameUpdated,
                   binderOk, xrMetrics, attempted, retried, gau, pace, sendAt,
                   startedAt, rcvVars, staticVars>>

\* getline fails at the end of the file: f.close()
LoadEnd ==
    /\ load.pc = "lines"
    /\ load' = [load EXCEPT !.pc = "done"]
    /\ UNCHANGED <<now, frames, frame_number, maxPayloadSize, srcState,
                   destResolved, srcSocketOpen, srcConnected, restartsLeft,
                   sendTimer, net, emitted, delivered, lastFrameUpdated,
                   binderOk, xrMetrics, attempted, retried, gau, pace, sendAt,
                   startedAt, rcvVars, staticVars>>

(***************************************************************************)
(* XRTrafficSource::tran_gau_num: a truncated Gaussian by rejection        *)
(* sampling.  A draw of normal(mean, sd) is any value of Draws; mean and   *)
(* sd decide how likely a value is, not which values are possible.         *)
(***************************************************************************)
Draws == (0 - MaxDraw)..MaxDraw

\* the (jitterMin, jitterMax) pairs of the calls, ordered or not
JitterRanges ==
    ((0 - MaxJitter)..MaxJitter) \X ((0 - MaxJitter)..MaxJitter)

OutOfRange(x, minv, maxv) == x < minv \/ x > maxv

\* the loop condition of tran_gau_num
ContinueWhileOutOfRange(x, attempts, minv, maxv) == OutOfRange(x, minv, maxv)
ContinueLoop(x, attempts, minv, maxv) ==
    OutOfRange(x, minv, maxv) /\ attempts < RedrawBudget

\* the two clamping statements after the loop, in their order
ClampNone(x, minv, maxv) == x
Clamp(x, minv, maxv) ==
    LET lo == IF x < minv THEN minv ELSE x
    IN  IF lo > maxv THEN maxv ELSE lo

\* no call of tran_gau_num in progress
GauIdle(minv, maxv) ==
    [pc |-> "idle", minv |-> minv, maxv |-> maxv, x |-> 0, attempts |-> 0,
     result |-> 0, seenInRange |-> FALSE, firstInRange |-> 0]

\* the record of a draw d: the first draw in range is remembered
NoteDraw(g, d) ==
    IF ~g.seenInRange /\ ~OutOfRange(d, g.minv, g.maxv)
    THEN [g EXCEPT !.seenInRange = TRUE, !.firstInRange = d]
    ELSE g

\* tran_gau_num is entered: double x = normal(...); int attempts = 0
GauCall ==
    /\ gau.pc \in {"idle", "done"}
    /\ \E r \in JitterRanges, d \in Draws :
          gau' = NoteDraw([GauIdle(r[1], r[2]) EXCEPT !.pc = "loop", !.x = d], d)
    /\ UNCHANGED <<now, frames, frame_number, maxPayloadSize, srcState,
                   destResolved, srcSocketOpen, srcConnected, restartsLeft,
                   sendTimer, net, emitted, delivered, lastFrameUpdated,
                   binderOk, xrMetrics, attempted, retried, rcvVars,
                   load, pace, sendAt,
                   startedAt, staticVars>>

\* one iteration of the loop: x = normal(...); attempts++
GauRedraw ==
    /\ gau.pc = "loop"
    /\ ContinueLoop(gau.x, gau.attempts, gau.minv, gau.maxv)
    /\ \E d \in Draws :
          gau' = NoteDraw([gau EXCEPT !.x = d, !.attempts = gau.attempts + 1],
                          d)
    /\ UNCHANGED <<now, frames, frame_number, maxPayloadSize, srcState,
                   destResolved, srcSocketOpen, srcConnected, restartsLeft,
                   sendTimer, net, emitted, delivered, lastFrameUpdated,
                   binderOk, xrMetrics, attempted, retried, rcvVars,
                   load, pace, sendAt,
                   startedAt, staticVars>>

\* the loop is left: clamp and return x
GauReturn ==
    /\ gau.pc = "loop"
    /\ ~ContinueLoop(gau.x, gau.attempts, gau.minv, gau.maxv)
    /\ gau' = [gau EXCEPT !.pc = "done",
                          !.result = Clamp(gau.x, gau.minv, gau.maxv)]
    /\ UNCHANGED <<now, frames, frame_number, maxPayloadSize, srcState,
                   destResolved, srcSocketOpen, srcConnected, restartsLeft,
                   sendTimer, net, emitted, delivered, lastFrameUpdated,
                   binderOk, xrMetrics, attempted, retried, rcvVars,
                   load, pace, sendAt,
                   startedAt, staticVars>>

(***************************************************************************)
(* XRTrafficSource: lifecycle, send timer                                  *)
(***************************************************************************)
\* handleStartOperation schedules the first frame when frames is not empty
StartSchedulesAlways(catalog) == TRUE
StartSchedules(catalog) == catalog # <<>>

\* the timer's arrival times are left open: it fires at any time
Unpaced ==
    [tracked |-> FALSE, fps |-> TicksPerSecond, startTime |-> 0,
     jitter_min |-> 0, jitter_max |-> 0]

\* the time handed to scheduleAt, where the specification tracks it
Tracked(t) == IF pace.tracked THEN t ELSE -1

\* the values tran_gau_num(jitter_mean, jitter_sd, jitter_min, jitter_max)
\* can return: the last draw, clamped
JitterSamples ==
    IF pace.tracked
    THEN { Clamp(x, pace.jitter_min, pace.jitter_max) : x \in Draws }
    ELSE {0}

\* (1.0 / fps) + (jitter_ms / 1000.0), in ticks
IntervalJitterSeconds(fps, jitter_ms) ==
    (TicksPerSecond \div fps) + jitter_ms * TicksPerSecond
IntervalWithJitter(fps, jitter_ms) == (TicksPerSecond \div fps) + jitter_ms

\* faulty variant of Initialized: the run goes on after error()
InitializedAnyway == TRUE
\* initialize() has returned: loadPCAData has ended without error(), which
\* throws and ends the run before any handleStartOperation
Initialized == load.pc = "done"

\* handleStartOperation without the test of the resolved address
SrcStartUnchecked ==
    /\ Initialized
    /\ \/ srcState = "created"
       \/ srcState = "down" /\ restartsLeft > 0
    /\ restartsLeft' = IF srcState = "down" THEN restartsLeft - 1
                                            ELSE restartsLeft
    /\ srcSocketOpen' = TRUE
    /\ srcState' = "up"
    /\ srcConnected' = TRUE
    /\ sendTimer' = StartSchedules(frames)
    /\ UNCHANGED <<now, frames, frame_number, maxPayloadSize, destResolved,
                   net, emitted, delivered, lastFrameUpdated, binderOk,
                   xrMetrics, attempted, retried, gau, load, pace, sendAt,
                   startedAt, rcvVars, staticVars>>
\* handleStartOperation: bind; resolve the destination, error() when it is
\* unspecified; connect; schedule the first frame at simTime() + startTime +
\* interval when the catalog is not empty.  The node is started once, and
\* again after a stop or crash as often as the scenario holds restarts.
SrcHandleStartOperation ==
    /\ Initialized
    /\ \/ srcState = "created"
       \/ srcState = "down" /\ restartsLeft > 0
    /\ restartsLeft' = IF srcState = "down" THEN restartsLeft - 1
                                            ELSE restartsLeft
    /\ srcSocketOpen' = TRUE
    /\ IF ~destResolved
       THEN \* error(...) throws: the run ends here
            /\ srcState' = "error"
            /\ UNCHANGED <<srcConnected, sendTimer, sendAt, startedAt>>
       ELSE /\ srcState' = "up"
            /\ srcConnected' = TRUE
            /\ sendTimer' = StartSchedules(frames)
            /\ \E jitter_ms \in JitterSamples :
                  sendAt' = IF StartSchedules(frames)
                            THEN Tracked(now + pace.startTime
                                     + IntervalWithJitter(pace.fps, jitter_ms))
                            ELSE -1
            /\ startedAt' = IF emitted = <<>> THEN Tracked(now)
                                               ELSE startedAt
    /\ UNCHANGED <<now, frames, frame_number, maxPayloadSize, destResolved,
                   net, emitted, delivered, lastFrameUpdated, binderOk,
                   xrMetrics, attempted, retried, gau, load, pace, rcvVars,
                   staticVars>>

\* handleStopOperation without the cancelEvent
SrcStopKeepsTimer ==
    /\ srcState = "up"
    /\ srcState' = "down"
    /\ srcSocketOpen' = FALSE
    /\ sendAt' = sendAt
    /\ srcConnected' = FALSE
    /\ UNCHANGED <<now, frames, frame_number, maxPayloadSize, destResolved,
                   restartsLeft, sendTimer, net, emitted, delivered,
                   lastFrameUpdated, binderOk, xrMetrics, attempted, retried,
                   gau, rcvVars, load, pace, startedAt,
                   staticVars>>
\* handleStopOperation: cancelEvent(sendTimer); socket.close()
SrcHandleStopOperation ==
    /\ srcState = "up"
    /\ srcState' = "down"
    /\ sendTimer' = FALSE
    /\ srcSocketOpen' = FALSE
    /\ sendAt' = -1
    /\ srcConnected' = FALSE
    /\ UNCHANGED <<now, frames, frame_number, maxPayloadSize, destResolved,
                   restartsLeft, net, emitted, delivered, lastFrameUpdated,
                   binderOk, xrMetrics, attempted, retried, gau, rcvVars,
                   load, pace, startedAt,
                   staticVars>>

\* handleCrashOperation: cancelEvent(sendTimer); socket.destroy()
SrcHandleCrashOperation ==
    /\ srcState = "up"
    /\ srcState' = "down"
    /\ sendTimer' = FALSE
    /\ srcSocketOpen' = FALSE
    /\ sendAt' = -1
    /\ srcConnected' = FALSE
    /\ UNCHANGED <<now, frames, frame_number, maxPayloadSize, destResolved,
                   restartsLeft, net, emitted, delivered, lastFrameUpdated,
                   binderOk, xrMetrics, attempted, retried, gau, rcvVars,
                   load, pace, startedAt,
                   staticVars>>

\* handleMessageWhenUp, a message of the socket: socket.processMessage(msg)
\* on the closed indication of the UDP layer leaves the socket closed
SrcSocketClosed ==
    /\ srcState = "up"
    /\ srcSocketOpen
    /\ srcSocketOpen' = FALSE
    /\ srcConnected' = FALSE
    /\ UNCHANGED <<now, frames, frame_number, maxPayloadSize, srcState,
                   destResolved, restartsLeft, sendTimer, net, emitted,
                   delivered, lastFrameUpdated, binderOk, xrMetrics,
                   attempted, retried, gau, rcvVars, load, pace, sendAt,
                   startedAt, staticVars>>

\* a binder update that does not look at lastFrameUpdated
UpdateBinderEveryRow(frameInfo) ==
    IF binderOk
    THEN /\ xrMetrics' = Append(xrMetrics,
                                [frame |-> frameInfo.frame_number,
                                 mse |-> frameInfo.mse,
                                 size |-> frameInfo.size_bytes])
         /\ lastFrameUpdated' = frameInfo.frame_number
    ELSE UNCHANGED <<xrMetrics, lastFrameUpdated>>
\* the binder update at the head of sendPacket
UpdateBinder(frameInfo) ==
    IF frameInfo.frame_number # lastFrameUpdated /\ binderOk
    THEN /\ xrMetrics' = Append(xrMetrics,
                                [frame |-> frameInfo.frame_number,
                                 mse |-> frameInfo.mse,
                                 size |-> frameInfo.size_bytes])
         /\ lastFrameUpdated' = frameInfo.frame_number
    ELSE UNCHANGED <<xrMetrics, lastFrameUpdated>>

\* the record of a call of sendPacket that works on catalog index i
SendAttempt(i) ==
    /\ attempted' = attempted \cup {i}
    /\ retried' = IF i \in attempted THEN retried \cup {i} ELSE retried

\* sendPacket(); totalFragments is the value the division produced
SendPacket(totalFragments) ==
    IF frame_number >= Len(frames)
    THEN \* "All frames sent, stopping transmission"
         UNCHANGED <<frame_number, net, emitted, xrMetrics, lastFrameUpdated,
                     attempted, retried>>
    ELSE LET frameInfo == frames[frame_number + 1]
             pkts == FramePackets(frameInfo, now, totalFragments,
                                  maxPayloadSize, Len(emitted) + 1)
         IN  /\ UpdateBinder(frameInfo)
             /\ SendAttempt(frame_number + 1)
             /\ IF totalFragments >= 1 /\ ~srcSocketOpen
                THEN \* "Socket not open, cannot send packet": return
                     UNCHANGED <<frame_number, net, emitted>>
                ELSE /\ net' = net \cup SeqToSet(pkts)
                     /\ emitted' = Append(emitted, [frame |-> frameInfo,
                                                    at |-> now,
                                                    maxPayload |-> maxPayloadSize,
                                                    pkts |-> pkts])
                     /\ frame_number' = frame_number + 1

\* scheduleNextPacket schedules the timer unless frame_number >= frames.size()
ScheduleNextAlways(fn, catalog) == TRUE
ScheduleNextPacket(fn, catalog) == fn < Len(catalog)

\* handleMessageWhenUp(sendTimer): sendPacket(); scheduleNextPacket().  The
\* kernel delivers the timer at its arrival time.
HandleSendTimer ==
    /\ srcState = "up"
    /\ sendTimer
    /\ pace.tracked => now = sendAt
    /\ \E tf \in (IF frame_number < Len(frames)
                  THEN TotalFragmentsOutcomes(
                           frames[frame_number + 1].size_bytes, maxPayloadSize)
                  ELSE {0}) :
          SendPacket(tf)
    /\ sendTimer' = ScheduleNextPacket(frame_number', frames)
    /\ \E jitter_ms \in JitterSamples :
          sendAt' = IF ScheduleNextPacket(frame_number', frames)
                    THEN Tracked(now + IntervalWithJitter(pace.fps, jitter_ms))
                    ELSE -1
    /\ UNCHANGED <<now, frames, maxPayloadSize, srcState, destResolved,
                   srcSocketOpen, srcConnected, restartsLeft, delivered,
                   binderOk, gau, load, pace, startedAt, rcvVars, staticVars>>

\* the clock does not pass the arrival time of a scheduled timer
TimerDue == pace.tracked /\ srcState = "up" /\ sendTimer /\ sendAt = now

\* the time the runs of a specification extend to
TimeLimit == IF pace.tracked THEN MaxPaceTime ELSE MaxTime

(***************************************************************************)
(* XRTrafficReceiver: lifecycle                                            *)
(***************************************************************************)
\* initialize() has run for every instance of the network
AllInitialized == \A r \in 1..numUe : rstate[r] # "created"

\* the simulation runs until the kernel starts calling finish()
SimRunning ==
    /\ AllInitialized
    /\ \A r \in 1..numUe : rstate[r] # "finished"

\* initialize(INITSTAGE_LOCAL) and handleStartOperation of instance r; the
\* kernel initializes the modules of the network one after the other
Initialize(r, expected) ==
    /\ rstate[r] = "created"
    /\ \A q \in 1..(r - 1) : rstate[q] # "created"
    /\ rstate' = [rstate EXCEPT ![r] = "up"]
    /\ expectedTotalFrames' = [expectedTotalFrames EXCEPT ![r] = expected]
    /\ userCount' = userCount + 1
    /\ trackingStarted' = [trackingStarted EXCEPT ![r] = FALSE]
    /\ resultFile' = [resultFile EXCEPT ![r] = OpenFile(@)]
    /\ UNCHANGED <<now, srcVars, numUe, seen, deadlineMs,
                   reliabilityThreshold, receivedFrames, firstFrameTime,
                   qoeComputed, qoe,
                   teardowns, arrivalsLeft, totalSumError, totalExpectedFrames,
                   totalOnTimeFrames, totalSatisfiedUsers, globalStatsPrinted,
                   finishedCount, globalSummary>>

\* no history of fragment indices is kept
Unseen == [tracked |-> FALSE, set |-> {}]

\* fragment h.fragIndex of frame h.frameNumber has reached instance r
NoteSeen(history, r, h) ==
    IF history.tracked
    THEN [history EXCEPT !.set = @ \cup {<<r, h.frameNumber, h.fragIndex>>}]
    ELSE history

\* socketDataArrived -> processFrame, for a packet with header h
SocketDataArrived(r, h) ==
    /\ SimRunning
    /\ rstate[r] = "up"
    /\ trackingStarted' = [trackingStarted EXCEPT ![r] = TRUE]
    /\ firstFrameTime' =
           [firstFrameTime EXCEPT ![r] = IF trackingStarted[r] THEN @ ELSE now]
    /\ receivedFrames' =
           [receivedFrames EXCEPT ![r] = ProcessFrame(@, h, now)]
    /\ resultFile' =
           [resultFile EXCEPT ![r] =
               WriteCompletion(@, CountFragment(receivedFrames[r], h, now),
                               h, now)]
    /\ seen' = NoteSeen(seen, r, h)

\* a fragment of some row of the PCA file, sent at time g, reaches r
Arrive(r) ==
    /\ arrivalsLeft > 0
    /\ arrivalsLeft' = arrivalsLeft - 1
    /\ \E fi \in PcaRows, g \in 0..now :
         \E tf \in TotalFragmentsOutcomes(fi.size_bytes, maxPayloadSize) :
           \E k \in 0..(tf - 1) :
              SocketDataArrived(r, MakeHeader(fi, g, k, tf))
    /\ UNCHANGED <<now, srcVars, numUe, deadlineMs,
                   reliabilityThreshold, rstate, expectedTotalFrames,
                   qoeComputed, qoe, teardowns, staticVars>>

\* faulty variant of HandleStopOperation: the stop counts in the barrier
HandleStopCountsFinished(r) ==
    /\ SimRunning
    /\ rstate[r] = "up"
    /\ rstate' = [rstate EXCEPT ![r] = "down"]
    /\ Teardown(r)
    /\ resultFile' = [resultFile EXCEPT ![r] = WriteLost(@, r)]
    /\ finishedCount' = finishedCount + 1
    /\ UNCHANGED <<now, srcVars, numUe, seen, deadlineMs,
                   reliabilityThreshold, expectedTotalFrames, trackVars,
                   arrivalsLeft, userCount, globalStatsPrinted,
                   globalSummary>>

\* handleStopOperation
HandleStopOperation(r) ==
    /\ SimRunning
    /\ rstate[r] = "up"
    /\ rstate' = [rstate EXCEPT ![r] = "down"]
    /\ Teardown(r)
    /\ resultFile' = [resultFile EXCEPT ![r] = WriteLost(@, r)]
    /\ UNCHANGED <<now, srcVars, numUe, seen, deadlineMs,
                   reliabilityThreshold, expectedTotalFrames, trackVars,
                   arrivalsLeft, userCount, globalStatsPrinted, finishedCount,
                   globalSummary>>

\* handleCrashOperation
HandleCrashOperation(r) ==
    /\ SimRunning
    /\ rstate[r] = "up"
    /\ rstate' = [rstate EXCEPT ![r] = "down"]
    /\ UNCHANGED <<now, srcVars, numUe, seen, deadlineMs,
                   reliabilityThreshold, expectedTotalFrames, receivedFrames,
                   trackVars, qoeComputed, qoe, teardowns, resultFile,
                   arrivalsLeft, staticVars>>

\* faulty variant of BarrierFires: the count is compared as it was before
\* this instance's increment
BarrierBeforeIncrement(finished, users, printed) ==
    finished - 1 = users /\ ~printed

\* if (finishedCount == userCount && !globalStatsPrinted)
BarrierFires(finished, users, printed) == finished = users /\ ~printed

\* faulty variant of GlobalRow: the reliability is taken per user
GlobalRowPerUser(users, satisfied, sumError, expected, onTime) ==
    [num_users |-> users,
     satisfied_users |-> satisfied,
     global_avg_mean_error |->
         IF expected > 0 THEN Ratio(sumError, expected) ELSE Ratio(0, 1),
     global_delay_reliability |->
         IF expected > 0 THEN Ratio(onTime, users) ELSE Ratio(0, 1),
     total_frames |-> expected,
     total_ontime_frames |-> onTime]

\* the row of global_qoe.csv / printGlobalQoESummary
GlobalRow(users, satisfied, sumError, expected, onTime) ==
    [num_users |-> users,
     satisfied_users |-> satisfied,
     global_avg_mean_error |->
         IF expected > 0 THEN Ratio(sumError, expected) ELSE Ratio(0, 1),
     global_delay_reliability |->
         IF expected > 0 THEN Ratio(onTime, expected) ELSE Ratio(0, 1),
     total_frames |-> expected,
     total_ontime_frames |-> onTime]

\* finish()
Finish(r) ==
    /\ AllInitialized
    /\ rstate[r] \in {"up", "down"}
    /\ rstate' = [rstate EXCEPT ![r] = "finished"]
    /\ Teardown(r)
    /\ resultFile' = [resultFile EXCEPT ![r] = CloseFile(WriteLost(@, r))]
    /\ finishedCount' = finishedCount + 1
    /\ IF BarrierFires(finishedCount', userCount, globalStatsPrinted)
       THEN /\ globalSummary' =
                  Append(globalSummary,
                         GlobalRow(userCount, totalSatisfiedUsers',
                                   totalSumError', totalExpectedFrames',
                                   totalOnTimeFrames'))
            /\ globalStatsPrinted' = TRUE
       ELSE UNCHANGED <<globalSummary, globalStatsPrinted>>
    /\ UNCHANGED <<now, srcVars, numUe, seen, deadlineMs,
                   reliabilityThreshold, expectedTotalFrames, trackVars,
                   arrivalsLeft, userCount>>

\* the simulation clock advances
Tick ==
    /\ SimRunning
    /\ now < TimeLimit
    /\ ~TimerDue
    /\ now' = now + 1
    /\ UNCHANGED <<srcVars, rcvVars, staticVars>>

(***************************************************************************)
(* The UDP channel between the source and receiver 1                       *)
(***************************************************************************)
\* a packet reaches the receiver's socket
Deliver(p) ==
    /\ p \in net
    /\ SocketDataArrived(1, p.hdr)
    /\ net' = net \ {p}
    /\ delivered' = delivered \cup {p.id}
    /\ UNCHANGED <<now, frames, frame_number, maxPayloadSize, srcState,
                   destResolved, srcSocketOpen, srcConnected, restartsLeft,
                   sendTimer, emitted, lastFrameUpdated, binderOk, xrMetrics,
                   attempted, retried, gau, numUe, deadlineMs,
                   reliabilityThreshold, rstate, expectedTotalFrames,
                   qoeComputed, qoe, teardowns, arrivalsLeft, load, pace, sendAt,
                   startedAt, staticVars>>

\* a packet is lost on the way
Drop(p) ==
    /\ p \in net
    /\ net' = net \ {p}
    /\ UNCHANGED <<now, frames, frame_number, maxPayloadSize, srcState,
                   destResolved, srcSocketOpen, srcConnected, restartsLeft,
                   sendTimer, emitted, delivered, lastFrameUpdated, binderOk,
                   xrMetrics, attempted, retried, gau, rcvVars, load, pace, sendAt,
                   startedAt, staticVars>>

(***************************************************************************)
(* Spec: the receiver instances of one run and their shared aggregate;     *)
(* the fragments that reach them are fragments of rows of the PCA file     *)
(***************************************************************************)
InitStatics ==
    /\ totalSumError = 0
    /\ totalExpectedFrames = 0
    /\ totalOnTimeFrames = 0
    /\ totalSatisfiedUsers = 0
    /\ userCount = 0
    /\ globalStatsPrinted = FALSE
    /\ finishedCount = 0
    /\ globalSummary = <<>>

InitReceivers ==
    /\ rstate = [r \in Receivers |-> "created"]
    /\ expectedTotalFrames = [r \in Receivers |-> 100]
    /\ receivedFrames = [r \in Receivers |-> <<>>]
    /\ trackingStarted = [r \in Receivers |-> FALSE]
    /\ firstFrameTime = [r \in Receivers |-> 0]
    /\ qoeComputed = [r \in Receivers |-> FALSE]
    /\ qoe = [r \in Receivers |-> NoQoE]
    /\ teardowns = [r \in Receivers |-> 0]
    /\ resultFile = [r \in Receivers |-> NoFile]
    /\ seen = Unseen
    /\ deadlineMs = DeadlineMs
    /\ reliabilityThreshold = Ratio(ThresholdNum, ThresholdDen)

InitSourceIdle ==
    /\ frames = <<>>
    /\ frame_number = 0
    /\ maxPayloadSize = MaxPayloadSize
    /\ srcState = "created"
    /\ destResolved = TRUE
    /\ srcSocketOpen = FALSE
    /\ srcConnected = FALSE
    /\ restartsLeft = 0
    /\ sendTimer = FALSE
    /\ net = {}
    /\ emitted = <<>>
    /\ delivered = {}
    /\ lastFrameUpdated = -1
    /\ binderOk = FALSE
    /\ xrMetrics = <<>>
    /\ attempted = {}
    /\ retried = {}
    /\ gau = GauIdle(0, 0)
    /\ pace = Unpaced
    /\ load = Loaded
    /\ sendAt = -1
    /\ startedAt = -1

Init ==
    /\ now = 0
    /\ numUe \in 1..MaxUsers
    /\ arrivalsLeft = MaxRunArrivals
    /\ InitSourceIdle
    /\ InitReceivers
    /\ InitStatics

Next ==
    \/ \E r \in 1..numUe, e \in 0..MaxExpected : Initialize(r, e)
    \/ \E r \in 1..numUe : Arrive(r)
    \/ \E r \in 1..numUe : HandleStopOperation(r)
    \/ \E r \in 1..numUe : HandleCrashOperation(r)
    \/ \E r \in 1..numUe : Finish(r)
    \/ Tick

Spec == Init /\ [][Next]_vars

(***************************************************************************)
(* SpecRecv: one receiver instance, with a larger budget of arrivals       *)
(***************************************************************************)
InitRecv ==
    /\ now = 0
    /\ numUe = 1
    /\ arrivalsLeft = MaxArrivals
    /\ InitSourceIdle
    /\ InitReceivers
    /\ InitStatics

SpecRecv == InitRecv /\ [][Next]_vars

(***************************************************************************)
(* Properties of the receiver: classification and counters (SpecRecv)      *)
(***************************************************************************)
\* the classes of a frame record, read off its fields
ReceivedOnTime(stats) == stats.receivedOnTime
ReceivedLate(stats) == stats.delay > DeadlineMs
Lost(stats) == stats.delay < 0

ExactlyOneClass(stats) ==
    /\ ReceivedOnTime(stats) \/ ReceivedLate(stats) \/ Lost(stats)
    /\ ~(ReceivedOnTime(stats) /\ ReceivedLate(stats))
    /\ ~(ReceivedOnTime(stats) /\ Lost(stats))
    /\ ~(ReceivedLate(stats) /\ Lost(stats))

\* the reconstruction errors the rows of the PCA file give frame number i
MseOf(i) == { fi.mse : fi \in { x \in PcaRows : x.frame_number = i } }

TornDown(r) == teardowns[r] > 0

C2_CountersSum ==
    \A r \in 1..numUe :
        TornDown(r) =>
            IF qoe[r] = NoQoE
            THEN expectedTotalFrames[r] = 0 /\ DOMAIN receivedFrames[r] = {}
            ELSE /\ qoe[r].onTimeCount + qoe[r].lateCount + qoe[r].lostCount
                       = expectedTotalFrames[r]
                 /\ qoe[r].receivedCount
                       = qoe[r].onTimeCount + qoe[r].lateCount

\* one frame late, one lost
C2_Witness ==
    /\ TornDown(1)
    /\ expectedTotalFrames[1] = 2
    /\ qoe[1] # NoQoE
    /\ qoe[1].onTimeCount = 0
    /\ qoe[1].lateCount = 1
    /\ qoe[1].lostCount = 1

\* C7, as stated: in every reachable state the fragmentsReceived of a frame
\* record never exceeds the record's totalFragments.
C7_FragmentsBounded ==
    \A r \in 1..numUe :
        \A f \in DOMAIN receivedFrames[r] :
            "fragmentsReceived" \in DOMAIN receivedFrames[r][f] =>
                receivedFrames[r][f].fragmentsReceived
                    <= receivedFrames[r][f].totalFragments

(***************************************************************************)
(* Properties of the shared aggregate (Spec)                               *)
(***************************************************************************)
AllFinished ==
    /\ userCount = numUe
    /\ \A r \in 1..numUe : rstate[r] = "finished"

\* what instance r holds at the end, read off its frame records
OnTimeFrames(r) ==
    { i \in 1..expectedTotalFrames[r] :
        /\ i \in DOMAIN receivedFrames[r]
        /\ receivedFrames[r][i].delay >= 0
        /\ receivedFrames[r][i].receivedOnTime }

RECURSIVE SumErrorUpTo(_, _)
SumErrorUpTo(r, i) ==
    IF i <= 0
    THEN 0
    ELSE receivedFrames[r][i].effectiveError + SumErrorUpTo(r, i - 1)

\* the sum of f[1] .. f[n]
RECURSIVE SumF(_, _)
SumF(f, n) == IF n = 0 THEN 0 ELSE f[n] + SumF(f, n - 1)

Folded(r) == qoeComputed[r]

SumExpected ==
    SumF([r \in 1..numUe |-> IF Folded(r) THEN expectedTotalFrames[r] ELSE 0],
         numUe)
SumOnTime ==
    SumF([r \in 1..numUe |-> IF Folded(r) THEN Cardinality(OnTimeFrames(r))
                                         ELSE 0], numUe)
SumError ==
    SumF([r \in 1..numUe |->
             IF Folded(r) THEN SumErrorUpTo(r, expectedTotalFrames[r]) ELSE 0],
         numUe)

\* C3: every instance adds its sumError, expectedTotalFrames and onTimeCount
\* to the shared totals exactly once, however often its teardown runs: the
\* totals are at all times the sums over the instances that have folded, and
\* after all instances have finished they are the sums over all instances.
C3_FoldedOnce ==
    /\ totalExpectedFrames = SumExpected
    /\ totalOnTimeFrames = SumOnTime
    /\ totalSumError = SumError
    /\ AllFinished =>
          /\ totalExpectedFrames =
                 SumF([r \in 1..numUe |-> expectedTotalFrames[r]], numUe)
          /\ totalOnTimeFrames =
                 SumF([r \in 1..numUe |-> Cardinality(OnTimeFrames(r))], numUe)

\* all have finished, and an instance with an on-time frame was torn down twice
C3_Witness ==
    /\ AllFinished
    /\ numUe = 2
    /\ \E r \in 1..numUe :
          /\ teardowns[r] = 2
          /\ OnTimeFrames(r) # {}
    /\ totalOnTimeFrames > 0

\* C4, as stated: the satisfied flag of an instance is counted once, so that
\* totalSatisfiedUsers does not exceed userCount when the summary is emitted.
C4_SatisfiedWithinUsers ==
    /\ globalSummary # <<>> =>
          globalSummary[1].satisfied_users <= globalSummary[1].num_users
    /\ AllFinished => totalSatisfiedUsers <= userCount

\* C5: the global summary is emitted exactly once, at the finish of the last
\* instance: never while an instance has not finished, never a second time,
\* and always once all have finished.
C5_SummaryOnce ==
    /\ Len(globalSummary) = IF AllFinished THEN 1 ELSE 0
    /\ globalStatsPrinted = AllFinished
    /\ finishedCount < userCount => globalSummary = <<>>
    /\ finishedCount = Cardinality({ r \in 1..numUe : rstate[r] = "finished" })

\* two instances have finished and the summary is there
C5_Witness ==
    /\ AllFinished
    /\ numUe = 2
    /\ finishedCount = 2
    /\ Len(globalSummary) = 1

\* C6: after all instances have folded, the emitted globalDelayReliability is
\* (sum of the instances' on-time frames) / (sum of their expected frames) and
\* globalMeanError is (sum of their error sums) / (the same denominator): both
\* are functions of what the instances hold, not of the order they finish in.
\* (When no frame is expected at all the code emits 0 for both.)
C6_GlobalRatios ==
    AllFinished =>
        /\ Len(globalSummary) = 1
        /\ globalSummary[1].global_delay_reliability =
               (IF SumExpected > 0 THEN Ratio(SumOnTime, SumExpected)
                                   ELSE Ratio(0, 1))
        /\ globalSummary[1].global_avg_mean_error =
               (IF SumExpected > 0 THEN Ratio(SumError, SumExpected)
                                   ELSE Ratio(0, 1))
        /\ globalSummary[1].total_frames = SumExpected
        /\ globalSummary[1].total_ontime_frames = SumOnTime

\* two instances with different expectations, one on-time frame in all
C6_Witness ==
    /\ AllFinished
    /\ numUe = 2
    /\ expectedTotalFrames[1] = 1
    /\ expectedTotalFrames[2] = 2
    /\ globalSummary[1].global_delay_reliability = Ratio(1, 3)

(***************************************************************************)
(* SpecSend: the source sends a catalog to receiver 1 over the channel     *)
(***************************************************************************)
\* the catalogs loadPCAData can produce from rows of the PCA file (no row
\* twice, in any order)
Catalogs ==
    { c \in UNION { [1..n -> PcaRows] : n \in 0..MaxCatalog } :
        \A i, j \in DOMAIN c : i # j => c[i] # c[j] }

InitSend ==
    /\ now = 0
    /\ numUe = 1
    /\ arrivalsLeft = 0
    /\ frames \in Catalogs
    /\ frame_number = 0
    /\ maxPayloadSize = MaxPayloadSize
    /\ srcState = "created"
    /\ destResolved = TRUE
    /\ srcSocketOpen = FALSE
    /\ srcConnected = FALSE
    /\ restartsLeft = 0
    /\ sendTimer = FALSE
    /\ net = {}
    /\ emitted = <<>>
    /\ delivered = {}
    /\ lastFrameUpdated = -1
    /\ binderOk = TRUE
    /\ xrMetrics = <<>>
    /\ attempted = {}
    /\ retried = {}
    /\ gau = GauIdle(0, 0)
    /\ pace = Unpaced
    /\ load = Loaded
    /\ sendAt = -1
    /\ startedAt = -1
    /\ InitReceivers
    /\ InitStatics

NextSend ==
    \/ Initialize(1, MaxExpected)
    \/ SrcHandleStartOperation
    \/ HandleSendTimer
    \/ SrcHandleStopOperation
    \/ SrcHandleCrashOperation
    \/ \E p \in net : Deliver(p)
    \/ \E p \in net : Drop(p)
    \/ Tick

SpecSend == InitSend /\ [][NextSend]_vars

(***************************************************************************)
(* SpecFrag: sendPacket applied to one frame, for a range of frame sizes   *)
(* and payload sizes                                                       *)
(***************************************************************************)
\* ceil(size / maxP) for size >= 1, maxP >= 1
CeilDiv(size, maxP) == ((size - 1) \div maxP) + 1

FragInputs ==
    { x \in ((1..MaxFragBytes) \cup {150000, IntMax})
            \X ((1..MaxFragPayload) \cup {60000, IntMax}) :
        CeilDiv(x[1], x[2]) <= MaxFragCount }

InitFrag ==
    /\ now = 0
    /\ numUe = 1
    /\ arrivalsLeft = 0
    /\ \E x \in FragInputs :
          /\ frames = << FrameInfo(1, 5, 50, x[1]) >>
          /\ maxPayloadSize = x[2]
    /\ frame_number = 0
    /\ srcState = "created"
    /\ destResolved = TRUE
    /\ srcSocketOpen = FALSE
    /\ srcConnected = FALSE
    /\ restartsLeft = 0
    /\ sendTimer = FALSE
    /\ net = {}
    /\ emitted = <<>>
    /\ delivered = {}
    /\ lastFrameUpdated = -1
    /\ binderOk = FALSE
    /\ xrMetrics = <<>>
    /\ attempted = {}
    /\ retried = {}
    /\ gau = GauIdle(0, 0)
    /\ pace = Unpaced
    /\ load = Loaded
    /\ sendAt = -1
    /\ startedAt = -1
    /\ InitReceivers
    /\ InitStatics

NextFrag ==
    \/ SrcHandleStartOperation
    \/ HandleSendTimer
    \/ SrcHandleStopOperation

SpecFrag == InitFrag /\ [][NextFrag]_vars

(***************************************************************************)
(* Properties of fragmentation and reassembly (SpecSend, SpecFrag)         *)
(***************************************************************************)
\* the identities of the packets of the j-th emitted frame
PacketIds(j) == { emitted[j].pkts[k].id : k \in DOMAIN emitted[j].pkts }

AllDelivered(j) == PacketIds(j) \subseteq delivered

\* receiver 1 has marked the record of the j-th emitted frame complete
MarkedComplete(j) ==
    /\ emitted[j].frame.frame_number \in DOMAIN receivedFrames[1]
    /\ receivedFrames[1][emitted[j].frame.frame_number].delay >= 0

\* the record counts exactly the fragments of the j-th emitted frame
CountsMatch(j) ==
    /\ emitted[j].frame.frame_number \in DOMAIN receivedFrames[1]
    /\ receivedFrames[1][emitted[j].frame.frame_number].fragmentsReceived
           = Len(emitted[j].pkts)
    /\ receivedFrames[1][emitted[j].frame.frame_number].totalFragments
           = Len(emitted[j].pkts)

\* no fragment of another emitted frame with the same frame number has
\* reached the receiver
NoOtherFragments(j) ==
    \A i \in DOMAIN emitted :
        (i # j /\ emitted[i].frame.frame_number = emitted[j].frame.frame_number)
            => PacketIds(i) \cap delivered = {}

RECURSIVE SumPayload(_, _)
SumPayload(pkts, n) ==
    IF n = 0 THEN 0 ELSE pkts[n].payloadLen + SumPayload(pkts, n - 1)

\* what C9 says of one emitted frame e
FragmentsAsSpecified(e) ==
    LET n == Len(e.pkts)
        size == e.frame.size_bytes
        maxP == e.maxPayload
    IN  /\ n = CeilDiv(size, maxP)
        /\ \A k \in 1..n :
              /\ e.pkts[k].hdr.fragIndex = k - 1
              /\ e.pkts[k].hdr.totalFragments = n
              /\ k < n => e.pkts[k].payloadLen = maxP
        /\ e.pkts[n].payloadLen \in 1..maxP
        /\ SumPayload(e.pkts, n) = size

C10_SameHeader ==
    \A j \in DOMAIN emitted :
        \A k \in DOMAIN emitted[j].pkts :
            /\ emitted[j].pkts[k].hdr.frameNumber = emitted[j].frame.frame_number
            /\ emitted[j].pkts[k].hdr.pcaComponents = emitted[j].frame.components
            /\ emitted[j].pkts[k].hdr.mse = emitted[j].frame.mse
            /\ emitted[j].pkts[k].hdr.sizeBytes = emitted[j].frame.size_bytes
            /\ emitted[j].pkts[k].hdr.totalFragments = Len(emitted[j].pkts)
            /\ emitted[j].pkts[k].hdr.genTime = emitted[j].at

\* a frame of three fragments was sent after the clock had advanced
C10_Witness ==
    \E j \in DOMAIN emitted :
        /\ Len(emitted[j].pkts) = 3
        /\ emitted[j].at > 0
        /\ \A k \in 1..3 : emitted[j].pkts[k].hdr.genTime = emitted[j].at

(***************************************************************************)
(* Properties of the receiver: deadline, lost and partial frames (SpecRecv)*)
(***************************************************************************)
\* the frame record completed (its delay is defined)
Completed(stats) == stats.delay >= 0

FromFragment(stats) == "fragmentsReceived" \in DOMAIN stats

\* C12: after teardown every frame number in 1..expectedTotalFrames has a
\* record; a number no fragment arrived for has a synthesized one with delay
\* -1, receivedOnTime FALSE and effectiveError 1000; when no fragment at all
\* arrived the records are exactly those of 1..expectedTotalFrames, all lost.
C12_LostSynthesized ==
    \A r \in 1..numUe :
        TornDown(r) =>
            /\ \A i \in 1..expectedTotalFrames[r] :
                  /\ i \in DOMAIN receivedFrames[r]
                  /\ receivedFrames[r][i].frameNumber = i
                  /\ ~FromFragment(receivedFrames[r][i]) =>
                        /\ receivedFrames[r][i].delay = -1
                        /\ ~receivedFrames[r][i].receivedOnTime
                        /\ receivedFrames[r][i].effectiveError = PenaltyError
            /\ ~trackingStarted[r] =>
                  /\ DOMAIN receivedFrames[r] = 1..expectedTotalFrames[r]
                  /\ \A i \in 1..expectedTotalFrames[r] :
                        ~FromFragment(receivedFrames[r][i])

\* total loss: no fragment arrived, both expected frames are synthesized
C12_Witness ==
    /\ TornDown(1)
    /\ expectedTotalFrames[1] = 2
    /\ ~trackingStarted[1]
    /\ DOMAIN receivedFrames[1] = {1, 2}
    /\ receivedFrames[1][2].effectiveError = PenaltyError

\* the totalFragments values the rows numbered f declare
TotalFragmentsOf(f) ==
    UNION { TotalFragmentsOutcomes(fi.size_bytes, maxPayloadSize) :
              fi \in { x \in PcaRows : x.frame_number = f } }

\* some but not all fragments of the record have arrived
Partial(stats) ==
    /\ FromFragment(stats)
    /\ stats.fragmentsReceived < stats.totalFragments

\* what a lost frame adds in computeAndRecordQoE
CountedAsLost(stats) ==
    CountFrame(ZeroCounters, stats) =
        [ZeroCounters EXCEPT !.lostCount = 1, !.sumError = PenaltyError]

InitLife ==
    /\ now = 0
    /\ numUe = 1
    /\ arrivalsLeft = 0
    /\ frames \in Catalogs
    /\ frame_number = 0
    /\ maxPayloadSize = MaxPayloadSize
    /\ srcState = "created"
    /\ destResolved \in BOOLEAN
    /\ srcSocketOpen = FALSE
    /\ srcConnected = FALSE
    /\ restartsLeft = MaxRestarts
    /\ sendTimer = FALSE
    /\ net = {}
    /\ emitted = <<>>
    /\ delivered = {}
    /\ lastFrameUpdated = -1
    /\ binderOk \in BOOLEAN
    /\ xrMetrics = <<>>
    /\ attempted = {}
    /\ retried = {}
    /\ gau = GauIdle(0, 0)
    /\ pace = Unpaced
    /\ load = Loaded
    /\ sendAt = -1
    /\ startedAt = -1
    /\ InitReceivers
    /\ InitStatics

NextLife ==
    \/ Initialize(1, MaxExpected)
    \/ SrcHandleStartOperation
    \/ HandleSendTimer
    \/ SrcHandleStopOperation
    \/ SrcHandleCrashOperation
    \/ SrcSocketClosed
    \/ Tick

SpecLife == InitLife /\ [][NextLife]_vars

(***************************************************************************)
(* Properties of the source's lifecycle and timer loop (SpecLife)          *)
(***************************************************************************)
\* the catalog is exhausted: every row has been emitted
Drained == frames # <<>> /\ frame_number = Len(frames)

\* C14, as stated: a send attempt that finds the socket not open is dropped
\* and the timer loop goes on with the next catalog frame, so that sendPacket
\* works on no catalog index more than once.
C14_NoRetry == retried = {}

\* the frames emitted so far are the first rows of the catalog, in order
EmittedInCatalogOrder ==
    /\ Len(emitted) = frame_number
    /\ frame_number <= Len(frames)
    /\ \A j \in DOMAIN emitted : emitted[j].frame = frames[j]

\* one step emits at most one frame, and only a firing of the send timer
\* emits one
OnePerFiring ==
    emitted' # emitted =>
        /\ sendTimer /\ srcState = "up"
        /\ Len(emitted') = Len(emitted) + 1
        /\ \A j \in DOMAIN emitted : emitted'[j] = emitted[j]

\* once the catalog is exhausted no fragment is sent
NothingSentWhenDrained == Drained => (emitted' = emitted /\ net' = net)

\* C15, as stated: frames are emitted one per timer firing, in catalog
\* order, each row at most once, and once the last row has been emitted no
\* timer is scheduled and no fragment is sent.
C15_InOrderThenSilent ==
    /\ [](EmittedInCatalogOrder /\ (Drained => ~sendTimer))
    /\ [][OnePerFiring /\ NothingSentWhenDrained]_vars

\* C15, amended: frames are emitted one per timer firing, in catalog order,
\* each row at most once; once the last row has been emitted no fragment is
\* sent and the timer loop schedules no timer; a timer pending then was
\* scheduled by a start of the node after a stop or crash, and its firing
\* sends nothing.
C15_InOrderThenNoFragment ==
    /\ []EmittedInCatalogOrder
    /\ [][/\ OnePerFiring
          /\ NothingSentWhenDrained
          /\ (Drained' /\ sendTimer') =>
                 \/ srcState = "down" /\ srcState' = "up"
                 \/ Drained /\ sendTimer]_vars

C15_Witness ==
    /\ Len(frames) = 2
    /\ Drained
    /\ Len(emitted) = 2
    /\ srcState = "up"
    /\ restartsLeft = 0
    /\ ~sendTimer

\* C16: with an empty catalog no timer is ever scheduled and no fragment is
\* ever sent, and a start with a resolved destination leaves the source up.
C16_EmptyCatalogSilent ==
    frames = <<>> =>
        /\ ~sendTimer
        /\ emitted = <<>>
        /\ net = {}
        /\ attempted = {}
        /\ destResolved => srcState \in {"created", "up", "down"}

C16_Witness ==
    /\ frames = <<>>
    /\ srcState = "up"
    /\ srcSocketOpen
    /\ srcConnected
    /\ restartsLeft = 0

\* C17: with an unresolved destination the start ends in the fatal error:
\* the socket is never connected, no timer is scheduled, no fragment is sent
\* and the source never comes up.
C17_UnresolvedIsFatal ==
    ~destResolved =>
        /\ srcState \in {"created", "error"}
        /\ ~srcConnected
        /\ ~sendTimer
        /\ emitted = <<>>
        /\ net = {}
        /\ attempted = {}

C17_Witness ==
    /\ ~destResolved
    /\ srcState = "error"
    /\ frames # <<>>
    /\ ~srcConnected

\* C18: after a stop or crash no timer is pending and the socket is closed,
\* and no fragment is sent while the source is down: a frame is emitted only
\* by a source that is up, hence after the next start.
C18_StoppedIsSilent ==
    /\ [](srcState = "down" => (~sendTimer /\ ~srcSocketOpen))
    /\ [][(emitted' # emitted \/ net' # net) => srcState = "up"]_vars

C18_Witness ==
    /\ srcState = "down"
    /\ Len(emitted) = 1
    /\ frame_number < Len(frames)
    /\ restartsLeft = MaxRestarts

(***************************************************************************)
(* SpecJitter: calls of tran_gau_num for every range and every sequence of *)
(* draws; SpecJitterFair adds that a call in progress executes its next    *)
(* statement.                                                              *)
(***************************************************************************)
InitJitter ==
    /\ now = 0
    /\ numUe = 1
    /\ arrivalsLeft = 0
    /\ InitSourceIdle
    /\ InitReceivers
    /\ InitStatics

NextJitter ==
    \/ GauCall
    \/ GauRedraw
    \/ GauReturn

SpecJitter == InitJitter /\ [][NextJitter]_vars

SpecJitterFair ==
    SpecJitter /\ WF_vars(GauRedraw) /\ WF_vars(GauReturn)

(***************************************************************************)
(* Properties of the jitter sampling (SpecJitter, SpecJitterFair)          *)
(***************************************************************************)
\* C19: for jitterMin <= jitterMax the value returned lies in
\* [jitterMin, jitterMax], whatever the draws were, and it is the first draw
\* in range if one of the draws of the call was in range.
C19_ClampedFirstInRange ==
    (gau.pc = "done" /\ gau.minv <= gau.maxv) =>
        /\ gau.minv <= gau.result
        /\ gau.result <= gau.maxv
        /\ gau.seenInRange => gau.result = gau.firstInRange

C19_Witness ==
    /\ gau.pc = "done"
    /\ gau.minv = 0 - MaxJitter
    /\ gau.maxv = MaxJitter
    /\ gau.attempts = 2
    /\ gau.seenInRange
    /\ gau.result = gau.firstInRange
    /\ gau.result = 1

\* C20: a call makes at most 1000 draws after the first one and then returns;
\* when the budget is used up without a draw in range it returns the bound
\* the last draw lies beyond; a call in progress always returns.
C20_Terminates ==
    /\ [](/\ gau.attempts <= RedrawBudget
          /\ (gau.pc = "done" /\ ~gau.seenInRange) =>
                 /\ gau.attempts = RedrawBudget
                 /\ gau.result = Clamp(gau.x, gau.minv, gau.maxv)
                 /\ gau.result \in {gau.minv, gau.maxv})
    /\ (gau.pc = "loop") ~> (gau.pc = "done")

C20_Witness ==
    /\ gau.pc = "done"
    /\ gau.attempts = RedrawBudget
    /\ ~gau.seenInRange
    /\ gau.x = MaxDraw
    /\ gau.maxv = MaxJitter
    /\ gau.result = MaxJitter

(***************************************************************************)
(* SpecPace: the send timer with its arrival times.  One tick is one       *)
(* millisecond, the unit of the jitter parameters; the frame rates are     *)
(* those whose frame interval is a whole number of ticks, and the jitter   *)
(* ranges those that keep every interval non-negative (scheduleAt refuses  *)
(* a time in the past).                                                    *)
(***************************************************************************)
PaceFps == {TicksPerSecond \div 2, TicksPerSecond}

PaceConfigs ==
    { [tracked |-> TRUE, fps |-> f, startTime |-> st,
       jitter_min |-> r[1], jitter_max |-> r[2]] :
          f \in PaceFps, st \in 0..MaxStartTime,
          r \in { q \in JitterRanges :
                     q[1] <= q[2] /\ \A g \in PaceFps :
                                        (TicksPerSecond \div g) + q[1] >= 0 } }

InitPace ==
    /\ now = 0
    /\ numUe = 1
    /\ arrivalsLeft = 0
    /\ frames \in Catalogs
    /\ frame_number = 0
    /\ maxPayloadSize = MaxPayloadSize
    /\ srcState = "created"
    /\ destResolved = TRUE
    /\ srcSocketOpen = FALSE
    /\ srcConnected = FALSE
    /\ restartsLeft = MaxRestarts
    /\ sendTimer = FALSE
    /\ net = {}
    /\ emitted = <<>>
    /\ delivered = {}
    /\ lastFrameUpdated = -1
    /\ binderOk = TRUE
    /\ xrMetrics = <<>>
    /\ attempted = {}
    /\ retried = {}
    /\ gau = GauIdle(0, 0)
    /\ pace \in PaceConfigs
    /\ load = Loaded
    /\ sendAt = -1
    /\ startedAt = -1
    /\ InitReceivers
    /\ InitStatics

NextPace ==
    \/ Initialize(1, MaxExpected)
    \/ SrcHandleStartOperation
    \/ HandleSendTimer
    \/ SrcHandleStopOperation
    \/ SrcHandleCrashOperation
    \/ SrcSocketClosed
    \/ Tick

SpecPace == InitPace /\ [][NextPace]_vars

(***************************************************************************)
(* Properties of the pacing (SpecPace)                                     *)
(***************************************************************************)
\* the intervals (1/fps) + jitter for jitter in [jitter_min, jitter_max]
IntervalRange ==
    ((TicksPerSecond \div pace.fps) + pace.jitter_min)
        .. ((TicksPerSecond \div pace.fps) + pace.jitter_max)

\* consecutive emissions are one interval apart, and the first emission is
\* startTime plus one interval after the start that precedes it
EmissionSpacing ==
    /\ \A j \in 1..(Len(emitted) - 1) :
           (emitted[j + 1].at - emitted[j].at) \in IntervalRange
    /\ Len(emitted) >= 1 =>
           (emitted[1].at - startedAt - pace.startTime) \in IntervalRange

\* C21, as stated: the time between two consecutive frame emissions is
\* (1/frameRate) plus one jitter sample, hence within (1/frameRate)+jitterMin
\* and (1/frameRate)+jitterMax, and the first emission happens at start time +
\* startTime + one such interval.
C21_EmissionSpacing == EmissionSpacing

\* C21, amended: every timer is scheduled (1/frameRate) plus one jitter sample
\* after the firing that schedules it, and startTime plus one such interval
\* after the start that schedules it; a frame is emitted only at the arrival
\* time of its timer; so the emissions of a source that has not been
\* restarted are one interval apart.
C21_TimerSpacing ==
    /\ [](restartsLeft = MaxRestarts => EmissionSpacing)
    /\ [][/\ emitted' # emitted => now = sendAt
          /\ (srcState # "up" /\ srcState' = "up" /\ sendTimer') =>
                 (sendAt' - now - pace.startTime) \in IntervalRange
          /\ (/\ srcState = "up" /\ srcState' = "up" /\ sendTimer'
              /\ (sendAt' # sendAt \/ emitted' # emitted
                                   \/ attempted' # attempted)) =>
                 (sendAt' - now) \in IntervalRange]_vars

C21_Witness ==
    /\ restartsLeft = MaxRestarts
    /\ pace.fps = TicksPerSecond \div 2
    /\ pace.jitter_min = 0 - MaxJitter
    /\ pace.jitter_max = MaxJitter
    /\ pace.startTime = MaxStartTime
    /\ Len(emitted) = 2
    /\ emitted[1].at - startedAt = MaxStartTime + 1
    /\ emitted[2].at - emitted[1].at = 3

(***************************************************************************)
(* Properties of the binder update (SpecLife)                              *)
(***************************************************************************)
\* what setXRMetrics is handed for a catalog row
MetricsOf(frameInfo) ==
    [frame |-> frameInfo.frame_number, mse |-> frameInfo.mse,
     size |-> frameInfo.size_bytes]

\* C22, as stated: with a binder present, every emitted catalog frame has
\* been notified exactly once, with its own metrics, by the time its
\* fragments are sent.
C22_OncePerEmittedFrame ==
    binderOk =>
        \A j \in DOMAIN emitted :
            Cardinality({ i \in DOMAIN xrMetrics :
                             xrMetrics[i] = MetricsOf(emitted[j].frame) }) = 1

\* the catalog rows sendPacket has worked on that open a run of rows with
\* one frame number
RunHeads ==
    { j \in attempted : j = 1 \/ frames[j].frame_number
                                    # frames[j - 1].frame_number }

RECURSIVE MetricsOfRows(_)
\* the metrics of a set of catalog rows, in catalog order
MetricsOfRows(rows) ==
    IF rows = {} THEN <<>>
    ELSE LET last == CHOOSE j \in rows : \A k \in rows : k <= j
         IN  Append(MetricsOfRows(rows \ {last}), MetricsOf(frames[last]))

\* C22, amended: with a binder present the notifications made are, in
\* order, one for every run of consecutive catalog rows with one frame
\* number that sendPacket has worked on, with the metrics of the first row of
\* the run, made no later than the step that sends that row's fragments;
\* without a binder there is none.
C22_OncePerFrameNumberRun ==
    /\ xrMetrics = (IF binderOk THEN MetricsOfRows(RunHeads) ELSE <<>>)
    /\ \A j \in DOMAIN emitted : j \in attempted

C22_Witness ==
    /\ binderOk
    /\ Len(frames) = 2
    /\ frames[1].frame_number = frames[2].frame_number
    /\ Len(emitted) = 2
    /\ Len(xrMetrics) = 1
    /\ xrMetrics[1] = MetricsOf(frames[1])

(***************************************************************************)
(* SpecLoad: loadPCAData on every file of up to MaxLines data lines, for   *)
(* every compression-level filter                                          *)
(***************************************************************************)
InitLoad ==
    /\ now = 0
    /\ numUe = 1
    /\ arrivalsLeft = 0
    /\ frames = <<>>
    /\ frame_number = 0
    /\ maxPayloadSize = MaxPayloadSize
    /\ srcState = "created"
    /\ destResolved = TRUE
    /\ srcSocketOpen = FALSE
    /\ srcConnected = FALSE
    /\ restartsLeft = 0
    /\ sendTimer = FALSE
    /\ net = {}
    /\ emitted = <<>>
    /\ delivered = {}
    /\ lastFrameUpdated = -1
    /\ binderOk = FALSE
    /\ xrMetrics = <<>>
    /\ attempted = {}
    /\ retried = {}
    /\ gau = GauIdle(0, 0)
    /\ pace = Unpaced
    /\ sendAt = -1
    /\ startedAt = -1
    /\ \E level \in CompressionLevels :
          load = [pc |-> "start", compressionLevel_ |-> level, lineNum |-> 0,
                  log |-> <<>>]
    /\ InitReceivers
    /\ InitStatics

NextLoad ==
    \/ LoadBegin
    \/ LoadLine
    \/ LoadEnd

SpecLoad == InitLoad /\ [][NextLoad]_vars

(***************************************************************************)
(* Properties of the catalog loader (SpecLoad)                             *)
(***************************************************************************)
\* the filter, on a record that is well-formed
PassesFilter(entry) ==
    load.compressionLevel_ = 0 \/ entry.components = load.compressionLevel_

\* C23, as stated: a record that does not have exactly 4 fields or has a
\* field that is not a number is skipped and the load goes on: the rows kept
\* are exactly the well-formed records that pass the filter, in file order.
C23_MalformedSkipped ==
    /\ load.pc # "error" =>
           Len(frames) = Cardinality({ i \in DOMAIN load.log :
                                          load.log[i].kept })
    /\ \A i \in DOMAIN load.log :
           load.log[i].kept <=>
               (load.log[i].wellFormed /\ PassesFilter(load.log[i]))

\* C24, as stated: the catalog holds the well-formed records whose
\* compression level is the filter's, and all well-formed records when the
\* filter is 0, and no other row.
C24_FilterExact ==
    LET wellFormed == { i \in DOMAIN load.log : load.log[i].wellFormed }
        kept == { i \in DOMAIN load.log : load.log[i].kept }
    IN  IF load.compressionLevel_ = 0
        THEN kept = wellFormed
        ELSE kept = { i \in wellFormed :
                         load.log[i].components = load.compressionLevel_ }

(***************************************************************************)
(* Properties of the per-user QoE values (SpecRecv)                        *)
(***************************************************************************)
\* the sum of g(i) over the numbers i of a finite set
RECURSIVE SumOver(_, _)
SumOver(set, g) ==
    IF set = {} THEN 0
    ELSE LET i == CHOOSE x \in set : TRUE
         IN  g[i] + SumOver(set \ {i}, g)

\* what frame i of instance r adds to the error sum: its effective error if
\* it completed within the deadline, the penalty if it is late or lost
ErrorShare(r) ==
    [i \in 1..expectedTotalFrames[r] |->
        LET stats == receivedFrames[r][i]
        IN  IF stats.delay >= 0 /\ stats.delay <= DeadlineMs
            THEN stats.effectiveError
            ELSE PenaltyError]

\* C25: for expectedTotalFrames >= 1 the reported meanError is the sum of the
\* effective errors of the frames 1..expectedTotalFrames, late and lost ones
\* counting 1000 each, divided by expectedTotalFrames.
C25_MeanError ==
    \A r \in 1..numUe :
        (TornDown(r) /\ expectedTotalFrames[r] >= 1) =>
            /\ qoe[r] # NoQoE
            /\ qoe[r].meanError =
                   Ratio(SumOver(1..expectedTotalFrames[r], ErrorShare(r)),
                         expectedTotalFrames[r])

C25_Witness ==
    /\ TornDown(1)
    /\ expectedTotalFrames[1] = 2
    /\ receivedFrames[1][1].delay < 0
    /\ receivedFrames[1][2].receivedOnTime
    /\ qoe[1].meanError = Ratio(PenaltyError + 80, 2)

\* the frames of instance r that the receiver marked complete
MarkedCompleteFrames(r) ==
    { i \in 1..expectedTotalFrames[r] : receivedFrames[r][i].delay >= 0 }

\* the frames of instance r all of whose fragments have been counted
AllFragmentsSeen(r) ==
    { i \in 1..expectedTotalFrames[r] :
        /\ FromFragment(receivedFrames[r][i])
        /\ receivedFrames[r][i].fragmentsReceived
               >= receivedFrames[r][i].totalFragments }

DelayOf(r) == [i \in 1..expectedTotalFrames[r] |-> receivedFrames[r][i].delay]

\* the mean of the delays of a set of frames of instance r, 0 for no frame
MeanDelay(r, set) ==
    IF set = {} THEN Ratio(0, 1)
    ELSE Ratio(SumOver(set, DelayOf(r)), Cardinality(set))

C27_Reliability ==
    \A r \in 1..numUe :
        (TornDown(r) /\ qoe[r] # NoQoE) =>
            /\ qoe[r].delayReliability =
                   Ratio(Cardinality(OnTimeFrames(r)), expectedTotalFrames[r])
            /\ qoe[r].userSatisfied <=>
                   /\ expectedTotalFrames[r] > 0
                   /\ Cardinality(OnTimeFrames(r)) * ThresholdDen
                          >= ThresholdNum * expectedTotalFrames[r]

C27_Witness ==
    /\ TornDown(1)
    /\ expectedTotalFrames[1] = 2
    /\ Cardinality(OnTimeFrames(1)) = 1
    /\ qoe[1].delayReliability = Ratio(ThresholdNum, ThresholdDen)
    /\ qoe[1].userSatisfied

(***************************************************************************)
(* Complete records are terminal (SpecRecv)                                *)
(***************************************************************************)
\* the frame numbers of instance r whose count has reached totalFragments
ReachedTotal(r) ==
    { i \in DOMAIN receivedFrames[r] :
        /\ FromFragment(receivedFrames[r][i])
        /\ receivedFrames[r][i].fragmentsReceived
               >= receivedFrames[r][i].totalFragments }

\* this step keeps record i of instance r and its three result fields
ResultKept(r, i) ==
    /\ i \in DOMAIN receivedFrames'[r]
    /\ receivedFrames'[r][i].delay = receivedFrames[r][i].delay
    /\ receivedFrames'[r][i].receivedOnTime
           = receivedFrames[r][i].receivedOnTime
    /\ receivedFrames'[r][i].effectiveError
           = receivedFrames[r][i].effectiveError

InitExport ==
    /\ now = 0
    /\ numUe = 1
    /\ arrivalsLeft = MaxArrivals
    /\ InitSourceIdle
    /\ rstate = [r \in Receivers |-> "created"]
    /\ expectedTotalFrames = [r \in Receivers |-> 100]
    /\ receivedFrames = [r \in Receivers |-> <<>>]
    /\ trackingStarted = [r \in Receivers |-> FALSE]
    /\ firstFrameTime = [r \in Receivers |-> 0]
    /\ qoeComputed = [r \in Receivers |-> FALSE]
    /\ qoe = [r \in Receivers |-> NoQoE]
    /\ teardowns = [r \in Receivers |-> 0]
    /\ resultFile = [r \in Receivers |-> NamedFile]
    /\ seen = Unseen
    /\ deadlineMs = DeadlineMs
    /\ reliabilityThreshold = Ratio(ThresholdNum, ThresholdDen)
    /\ InitStatics

SpecExport == InitExport /\ [][Next]_vars

\* the rows of the file of instance r that carry frame number i
RowsOf(r, i) ==
    { k \in DOMAIN resultFile[r].rows : resultFile[r].rows[k].frameNumber = i }

\* C29: with the result export enabled, after teardown the file holds exactly
\* one data row for every frame number 1..expectedTotalFrames, whatever
\* happened to the frame, with delay -1 and receivedOnTime 0 on the rows of
\* frames that did not complete; no frame number has two rows, also when
\* teardown has run twice.
C29_OneRowPerFrame ==
    \A r \in 1..numUe :
        (TornDown(r) /\ resultFile[r].configured) =>
            \A i \in 1..expectedTotalFrames[r] :
                /\ Cardinality(RowsOf(r, i)) = 1
                /\ receivedFrames[r][i].delay < 0 =>
                       \A k \in RowsOf(r, i) :
                           /\ resultFile[r].rows[k].delay_ms = -1
                           /\ resultFile[r].rows[k].receivedOnTime = 0

(***************************************************************************)
(* SpecScenario: a catalog of two frames of 1000 bytes (errors 50 and 80), *)
(* a payload limit of 2000 bytes, a deadline of 5 ms, two expected frames  *)
(* and a threshold of 0.99; source, channel and receiver 1, with the       *)
(* source's timer times                                                    *)
(***************************************************************************)
ScenarioCatalog == <<FrameInfo(1, 5, 50, 1000), FrameInfo(2, 5, 80, 1000)>>

InitScenario ==
    /\ now = 0
    /\ numUe = 1
    /\ arrivalsLeft = 0
    /\ frames = ScenarioCatalog
    /\ frame_number = 0
    /\ maxPayloadSize = 2000
    /\ srcState = "created"
    /\ destResolved = TRUE
    /\ srcSocketOpen = FALSE
    /\ srcConnected = FALSE
    /\ restartsLeft = 0
    /\ sendTimer = FALSE
    /\ net = {}
    /\ emitted = <<>>
    /\ delivered = {}
    /\ lastFrameUpdated = -1
    /\ binderOk = TRUE
    /\ xrMetrics = <<>>
    /\ attempted = {}
    /\ retried = {}
    /\ gau = GauIdle(0, 0)
    /\ pace \in PaceConfigs
    /\ load = Loaded
    /\ sendAt = -1
    /\ startedAt = -1
    /\ rstate = [r \in Receivers |-> "created"]
    /\ expectedTotalFrames = [r \in Receivers |-> 100]
    /\ receivedFrames = [r \in Receivers |-> <<>>]
    /\ trackingStarted = [r \in Receivers |-> FALSE]
    /\ firstFrameTime = [r \in Receivers |-> 0]
    /\ qoeComputed = [r \in Receivers |-> FALSE]
    /\ qoe = [r \in Receivers |-> NoQoE]
    /\ teardowns = [r \in Receivers |-> 0]
    /\ resultFile = [r \in Receivers |-> NoFile]
    /\ seen = Unseen
    /\ deadlineMs = 5
    /\ reliabilityThreshold = Ratio(99, 100)
    /\ InitStatics

NextScenario ==
    \/ Initialize(1, 2)
    \/ SrcHandleStartOperation
    \/ HandleSendTimer
    \/ SrcHandleStopOperation
    \/ SrcHandleCrashOperation
    \/ \E p \in net : Deliver(p)
    \/ \E p \in net : Drop(p)
    \/ HandleStopOperation(1)
    \/ Finish(1)
    \/ Tick

SpecScenario == InitScenario /\ [][NextScenario]_vars

\* frame 1 reached the receiver in one fragment 3 ms after it was generated,
\* no fragment of frame 2 reached it, and the receiver has been torn down
ScenarioRun ==
    /\ TornDown(1)
    /\ FromFragment(receivedFrames[1][1])
    /\ receivedFrames[1][1].totalFragments = 1
    /\ (receivedFrames[1][1].recvTime - receivedFrames[1][1].genTime) * 1000
           = 3 * TicksPerSecond
    /\ ~FromFragment(receivedFrames[1][2])

\* C28: in this scenario, with frame 1's single fragment delivered after 3 ms
\* and frame 2 never delivered, teardown reports onTimeCount 1, lateCount 0,
\* lostCount 1, meanError 525, delayReliability 0.5 and an unsatisfied user.
C28_Scenario ==
    ScenarioRun =>
        /\ qoe[1] # NoQoE
        /\ qoe[1].onTimeCount = 1
        /\ qoe[1].lateCount = 0
        /\ qoe[1].lostCount = 1
        /\ qoe[1].meanError.den > 0
        /\ qoe[1].meanError.num = 525 * qoe[1].meanError.den
        /\ qoe[1].delayReliability.den > 0
        /\ 2 * qoe[1].delayReliability.num = qoe[1].delayReliability.den
        /\ ~qoe[1].userSatisfied

C28_Witness ==
    /\ ScenarioRun
    /\ rstate[1] = "finished"
    /\ Len(emitted) = 2
    /\ qoe[1].lostCount = 1

(***************************************************************************)
(* Records in the making (SpecRecv)                                        *)
(***************************************************************************)
\* the record is as its first fragment left it
Pending(stats) ==
    /\ stats.delay = -1
    /\ ~stats.receivedOnTime
    /\ stats.effectiveError = PenaltyError

StopStep(r) ==
    /\ rstate[r] = "up"
    /\ rstate'[r] # "up"
    /\ rstate'[r] # "finished"
    /\ teardowns'[r] = teardowns[r] + 1

\* after the step every expected frame number has a record, and the records
\* made from fragments are as they were
RecordsFinal(r) ==
    /\ \A i \in 1..expectedTotalFrames[r] : i \in DOMAIN receivedFrames'[r]
    /\ \A i \in DOMAIN receivedFrames[r] :
           /\ i \in DOMAIN receivedFrames'[r]
           /\ receivedFrames'[r][i] = receivedFrames[r][i]
    /\ \A i \in DOMAIN receivedFrames'[r] \ DOMAIN receivedFrames[r] :
           ~FromFragment(receivedFrames'[r][i])

\* after the step the metrics of instance r are those of its records
MetricsComputed(r) ==
    /\ qoe'[r] # NoQoE
    /\ qoe'[r].totalFrames = expectedTotalFrames[r]
    /\ qoe'[r].onTimeCount = Cardinality(OnTimeFrames(r))'
    /\ qoe'[r].receivedCount = Cardinality(MarkedCompleteFrames(r))'
    /\ qoe'[r].sumError = SumErrorUpTo(r, expectedTotalFrames[r])'

\* the step adds the statistics of instance r to the totals, unless an
\* earlier teardown has done so
FoldedInStep(r) ==
    /\ qoeComputed'[r]
    /\ ~qoeComputed[r] =>
           /\ totalSumError' = totalSumError + qoe'[r].sumError
           /\ totalExpectedFrames' = totalExpectedFrames + qoe'[r].totalFrames
           /\ totalOnTimeFrames' = totalOnTimeFrames + qoe'[r].onTimeCount

\* the barrier is as it was
BarrierUntouched ==
    /\ finishedCount' = finishedCount
    /\ globalStatsPrinted' = globalStatsPrinted
    /\ globalSummary' = globalSummary

\* C32: when handleStopOperation returns, every frame number in
\* 1..expectedTotalFrames has a record, the per-user metrics are computed
\* from the fragments received so far and folded into the global aggregate,
\* and the instance is not counted as finished in the barrier.  (Nothing is
\* computed when the record map is empty, which needs expectedTotalFrames = 0
\* and no arrival.)
C32_StopFinalizes ==
    [][\A r \in 1..numUe :
          StopStep(r) =>
              /\ RecordsFinal(r)
              /\ BarrierUntouched
              /\ IF DOMAIN receivedFrames'[r] = {}
                 THEN /\ expectedTotalFrames[r] = 0
                      /\ qoe'[r] = qoe[r]
                 ELSE MetricsComputed(r) /\ FoldedInStep(r)]_vars

\* instance 1 was stopped after a fragment had arrived, and has not finished
C32_Witness ==
    /\ rstate[1] = "down"
    /\ teardowns[1] = 1
    /\ \E i \in DOMAIN receivedFrames[1] : FromFragment(receivedFrames[1][i])
    /\ \E i \in DOMAIN receivedFrames[1] : ~FromFragment(receivedFrames[1][i])
    /\ qoeComputed[1]
    /\ totalExpectedFrames = expectedTotalFrames[1]
    /\ expectedTotalFrames[1] > 0
    /\ finishedCount = 0

(***************************************************************************)
(* SpecLoadRun: loadPCAData followed by the life of the source             *)
(***************************************************************************)
NextLoadRun ==
    \/ LoadBegin
    \/ LoadLine
    \/ LoadEnd
    \/ Initialize(1, MaxExpected)
    \/ SrcHandleStartOperation
    \/ HandleSendTimer
    \/ SrcHandleStopOperation
    \/ SrcHandleCrashOperation
    \/ Tick

SpecLoadRun == InitLoad /\ [][NextLoadRun]_vars

\* the source has neither started nor scheduled nor sent anything
NeverRan ==
    /\ srcState = "created"
    /\ ~sendTimer
    /\ ~srcSocketOpen
    /\ emitted = <<>>
    /\ attempted = {}
    /\ net = {}

\* C33: if the catalog file cannot be opened, loading ends in a fatal error
\* and the source never schedules a timer or sends a fragment; a file that
\* opens but holds no data record gives an empty catalog and no fatal error.
C33_OpenFailureIsFatal ==
    /\ [](load.pc = "error" => NeverRan /\ frames = <<>>)
    /\ []((load.pc = "done" /\ load.log = <<>>) => frames = <<>>)
    /\ [][/\ load.pc = "error" => load'.pc = "error"
          /\ (load.pc = "start" /\ load'.pc = "error") => load.log = <<>>
          /\ (load.pc = "lines" /\ load.log = <<>>) => load'.pc # "error"]_vars

\* the file could not be opened, and time has passed since
C33_Witness ==
    /\ load.pc = "error"
    /\ now > 0
    /\ NeverRan

(***************************************************************************)
(* SpecDup: one receiver instance and a channel that may deliver a         *)
(* fragment more than once, with the history of the indices that arrived   *)
(***************************************************************************)
InitDup ==
    /\ now = 0
    /\ numUe = 1
    /\ arrivalsLeft = MaxArrivals
    /\ InitSourceIdle
    /\ rstate = [r \in Receivers |-> "created"]
    /\ expectedTotalFrames = [r \in Receivers |-> 100]
    /\ receivedFrames = [r \in Receivers |-> <<>>]
    /\ trackingStarted = [r \in Receivers |-> FALSE]
    /\ firstFrameTime = [r \in Receivers |-> 0]
    /\ qoeComputed = [r \in Receivers |-> FALSE]
    /\ qoe = [r \in Receivers |-> NoQoE]
    /\ teardowns = [r \in Receivers |-> 0]
    /\ resultFile = [r \in Receivers |-> NoFile]
    /\ seen = [tracked |-> TRUE, set |-> {}]
    /\ deadlineMs = DeadlineMs
    /\ reliabilityThreshold = Ratio(ThresholdNum, ThresholdDen)
    /\ InitStatics

SpecDup == InitDup /\ [][Next]_vars

\* every fragment index of record i of instance r has arrived
AllIndicesSeen(r, i) ==
    \A k \in 0..(receivedFrames[r][i].totalFragments - 1) :
        <<r, i, k>> \in seen.set

\* C34: a frame is marked complete, and so classified as received (on time or
\* late), only when every fragment index 0..totalFragments-1 of it has
\* arrived at least once, also when fragments are delivered more than once.
C34_CompleteNeedsEveryIndex ==
    \A r \in 1..numUe : \A i \in DOMAIN receivedFrames[r] :
        (FromFragment(receivedFrames[r][i]) /\ receivedFrames[r][i].delay >= 0)
            => AllIndicesSeen(r, i)

(***************************************************************************)
(* SpecLifeFair: SpecLife with the kernel delivering every scheduled timer *)
(***************************************************************************)
SpecLifeFair == InitLife /\ [][NextLife]_vars /\ WF_vars(HandleSendTimer)

\* the frame index has reached the catalog size and no timer is pending
DrainedIdle == frame_number = Len(frames) /\ ~sendTimer

\* C35: while the source is up and its timer keeps firing, it reaches
\* frame index = catalog size with no timer pending after finitely many
\* firings, whatever the state of the channel is at each firing.
C35_EventuallyDrained ==
    (srcState = "up") ~> (DrainedIdle \/ srcState # "up")

(***************************************************************************)
(* SpecRuns: simulation runs one after another in one process              *)
(* (simu5g -r 0..9 -u Cmdenv).  A run builds its modules anew; the static  *)
(* members are initialized once, when the program is loaded.               *)
(***************************************************************************)
\* every instance of the run has finished
RunFinished == \A r \in 1..numUe : rstate[r] = "finished"

\* the runs that have ended, counted by their calls of finish()
RunsDone == finishedCount \div numUe

\* the next run of the same configuration is set up: new module objects, the
\* clock at 0
NewRun ==
    /\ RunFinished
    /\ RunsDone < MaxRuns
    /\ now' = 0
    /\ rstate' = [r \in Receivers |-> "created"]
    /\ expectedTotalFrames' = [r \in Receivers |-> 100]
    /\ receivedFrames' = [r \in Receivers |-> <<>>]
    /\ trackingStarted' = [r \in Receivers |-> FALSE]
    /\ firstFrameTime' = [r \in Receivers |-> 0]
    /\ qoeComputed' = [r \in Receivers |-> FALSE]
    /\ qoe' = [r \in Receivers |-> NoQoE]
    /\ teardowns' = [r \in Receivers |-> 0]
    /\ UNCHANGED <<srcVars, numUe, deadlineMs, reliabilityThreshold,
                   resultFile, seen, arrivalsLeft, staticVars>>

NextRuns ==
    \/ \E r \in 1..numUe, e \in 0..MaxExpected : Initialize(r, e)
    \/ \E r \in 1..numUe : Arrive(r)
    \/ \E r \in 1..numUe : HandleStopOperation(r)
    \/ \E r \in 1..numUe : HandleCrashOperation(r)
    \/ \E r \in 1..numUe : Finish(r)
    \/ Tick
    \/ NewRun

SpecRuns == Init /\ [][NextRuns]_vars

\* the run has not begun: no instance is initialized
RunNotBegun == \A r \in 1..numUe : rstate[r] = "created"

\* C36: with several runs in one process, the shared counters and the barrier
\* carry nothing over from an earlier run, and each run's global summary is
\* emitted once for that run and covers only that run's instances.
C36_RunsIndependent ==
    /\ RunNotBegun =>
          /\ totalSumError = 0
          /\ totalExpectedFrames = 0
          /\ totalOnTimeFrames = 0
          /\ totalSatisfiedUsers = 0
          /\ userCount = 0
          /\ finishedCount = 0
          /\ ~globalStatsPrinted
    /\ RunFinished =>
          /\ Len(globalSummary) = RunsDone
          /\ globalSummary[Len(globalSummary)].num_users = numUe

(***************************************************************************)
(* A second teardown of the same instance (SpecRecv)                       *)
(***************************************************************************)
\* this step is a teardown of instance r that is not its first
RepeatedTeardown(r) ==
    /\ teardowns[r] >= 1
    /\ teardowns'[r] = teardowns[r] + 1

\* C37: a second run of detectLostFrames and computeAndRecordQoE with no
\* arrival in between creates no record, changes no record and reports the
\* same receivedCount, onTimeCount, lateCount, lostCount, meanError and
\* avgDelay as the first.
C37_TeardownIdempotent ==
    [][\A r \in 1..numUe :
          RepeatedTeardown(r) =>
              /\ receivedFrames'[r] = receivedFrames[r]
              /\ qoe'[r] = qoe[r]]_vars

\* stop, then finish, with a frame on time, a frame left partial
C37_Witness ==
    /\ teardowns[1] = 2
    /\ expectedTotalFrames[1] = 2
    /\ qoe[1] # NoQoE
    /\ qoe[1].onTimeCount = 1
    /\ qoe[1].lostCount = 1
    /\ \E i \in 1..2 : Partial(receivedFrames[1][i])

(***************************************************************************)
(* Fragments of frame numbers outside 1..expectedTotalFrames (SpecRecv)    *)
(***************************************************************************)
\* the six sums of a report
SumsOf(q) ==
    <<q.receivedCount, q.onTimeCount, q.lateCount, q.lostCount, q.sumError,
      q.sumDelay>>

\* what a teardown of instance r would report in this state
Prospective(r) ==
    SumsOf(QoESummary(DetectLostFrames(receivedFrames[r],
                                       expectedTotalFrames[r]),
                      expectedTotalFrames[r]))

\* the frame numbers whose record this step creates or changes
Touched(r) ==
    { i \in DOMAIN receivedFrames'[r] :
        i \notin DOMAIN receivedFrames[r]
            \/ receivedFrames'[r][i] # receivedFrames[r][i] }

\* this step is the arrival at r of a fragment of a frame number outside
\* 1..expectedTotalFrames
OutOfRangeArrival(r) ==
    /\ rstate[r] = "up"
    /\ rstate'[r] = "up"
    /\ Touched(r) # {}
    /\ \A i \in Touched(r) : i \notin 1..expectedTotalFrames[r]

\* C38: a fragment whose frameNumber lies outside 1..expectedTotalFrames
\* changes neither the per-user counters (receivedCount, onTimeCount,
\* lateCount, lostCount, sumError, delay sum) nor the global aggregate: they
\* are what they would be had the fragment not arrived.
C38_OutOfRangeIgnored ==
    /\ [](\A r \in 1..numUe :
             TornDown(r) =>
                 Prospective(r) = IF qoe[r] = NoQoE THEN SumsOf(ZeroCounters)
                                                    ELSE SumsOf(qoe[r]))
    /\ [][\A r \in 1..numUe :
             OutOfRangeArrival(r) =>
                 /\ Prospective(r)' = Prospective(r)
                 /\ staticVars' = staticVars]_vars

\* one frame expected and lost, frame 2 received in full
C38_Witness ==
    /\ TornDown(1)
    /\ expectedTotalFrames[1] = 1
    /\ 2 \in DOMAIN receivedFrames[1]
    /\ receivedFrames[1][2].receivedOnTime
    /\ qoe[1] # NoQoE
    /\ qoe[1].receivedCount = 0
    /\ qoe[1].lostCount = 1

(***************************************************************************)
(* Bounds of the aggregates (Spec)                                         *)
(***************************************************************************)
\* the fraction is a number between 0 and 1
InUnit(ratio) == ratio.den > 0 /\ 0 <= ratio.num /\ ratio.num <= ratio.den

\* C39: in every reachable state, for each receiver onTimeCount <=
\* receivedCount <= expectedTotalFrames, for the shared aggregate
\* 0 <= totalOnTimeFrames <= totalExpectedFrames, and the global delay
\* reliability and every per-user ratio lie in [0,1].
C39_AggregatesBounded ==
    /\ \A r \in 1..numUe :
          qoe[r] # NoQoE =>
              /\ qoe[r].onTimeCount <= qoe[r].receivedCount
              /\ qoe[r].receivedCount <= expectedTotalFrames[r]
              /\ InUnit(qoe[r].deliveryRatio)
              /\ InUnit(qoe[r].onTimeRatio)
              /\ InUnit(qoe[r].lossRatio)
              /\ InUnit(qoe[r].delayReliability)
    /\ 0 <= totalOnTimeFrames
    /\ totalOnTimeFrames <= totalExpectedFrames
    /\ \A k \in DOMAIN globalSummary :
          InUnit(globalSummary[k].global_delay_reliability)

====
